---- MODULE Spec2Model ----
(***************************************************************************)
(* Catalog / ledger consistency of the Tzu Chi library web application     *)
(* (src/library_webapp.py).                                                *)
(*                                                                         *)
(* The state is the content of the three CSV files the application reads   *)
(* at the start of every run and rewrites whole on every save, together    *)
(* with the per-session flag of the automatic sync and the last message    *)
(* shown to the operator.  One action is one run of main() in which one    *)
(* button was pressed; the health check and automatic sync at the top of   *)
(* main() run before any button handler and, when they fire, end the run   *)
(* with st.rerun().                                                        *)
(*                                                                         *)
(* Text that the application only compares for equality (titles, Book IDs, *)
(* names) is a TLA+ string.  Text that it canonicalises character by       *)
(* character (student codes, barcodes, scanner input) is a sequence of     *)
(* one-character strings.  A timestamp "%Y-%m-%d %H:%M:%S" is the integer  *)
(* count of seconds it denotes.                                            *)
(***************************************************************************)
EXTENDS Integers, Sequences, FiniteSets, TLC

VARIABLES
    STUDENT_CSV,      \* rows of data/Student_records.csv
    BOOKS_CSV,        \* data/Library_books.csv: [has_ROW_KEY, rows]
    LOG_CSV,          \* rows of data/Borrow_log.csv
    logs_autosynced,  \* st.session_state["logs_autosynced"]
    ui,               \* the message the last run showed (st.success / st.error / ...)
    session           \* per browser session: the run of main() it is in the middle of

vars == <<STUDENT_CSV, BOOKS_CSV, LOG_CSV, logs_autosynced, ui, session>>

\* the browser sessions open on the application
Sessions == {1, 2}

\* a session between two runs of main()
Idle == [pc |-> "idle"]

----------------------------------------------------------------------------
(* Bounds of the model *)

\* the ledger holds at most MaxLogs rows
MaxLogs == 2
\* datetime.now() reads a second in 0..MaxClock
MaxClock == 0

\* timedelta(days=14) of the reconciler, and the slider's default
DefaultLoanDays == 14
\* seconds in one day of a timedelta
DaySeconds == 86400
\* a loan period of the "Borrow Days" slider (1..30) other than the default
ShortLoanDays == 7

LoanDayChoices == {ShortLoanDays}

\* the seconds datetime.now() can read
Clock == 0..MaxClock

----------------------------------------------------------------------------
(* Characters and text *)

Str(s) == s   \* str(x) of a value that is text already

\* a character is a one-character string; "U+01F0" stands for the letter
\* j with caron and "U+030C" for the combining caron (a mark, not a letter)
UpperOf(ch) ==
    CASE ch = "a" -> "A"
      [] ch = "b" -> "B"
      [] ch = "c" -> "C"
      [] ch = "j" -> "J"
      [] OTHER    -> ch

LowerOf(ch) ==
    CASE ch = "A" -> "a"
      [] ch = "B" -> "b"
      [] ch = "C" -> "c"
      [] ch = "J" -> "j"
      [] OTHER    -> ch

IsAlnum(ch) ==
    ch \in {"a", "b", "c", "j", "A", "B", "C", "J", "1", "2", "7", "U+01F0"}

IsSpace(ch) == ch = " "

MapSeq(s, Op(_)) == [i \in 1..Len(s) |-> Op(s[i])]

\* str.strip(): leading and trailing whitespace removed
RECURSIVE LStrip(_)
LStrip(s) == IF s # <<>> /\ IsSpace(Head(s)) THEN LStrip(Tail(s)) ELSE s

RECURSIVE RStrip(_)
RStrip(s) ==
    IF s # <<>> /\ IsSpace(s[Len(s)]) THEN RStrip(SubSeq(s, 1, Len(s) - 1)) ELSE s

strip(s) == RStrip(LStrip(s))

\* str.upper() of a text with U+01F0 in it: that letter has no upper-case
\* code point of its own, its upper case is "J" followed by U+030C
RECURSIVE SpecialUpper(_)
SpecialUpper(s) ==
    IF s = <<>> THEN <<>>
    ELSE (IF Head(s) = "U+01F0" THEN <<"J", "U+030C">> ELSE <<UpperOf(Head(s))>>)
         \o SpecialUpper(Tail(s))

\* str.upper()
upper(s) ==
    IF \A i \in 1..Len(s) : s[i] # "U+01F0" THEN MapSeq(s, UpperOf)
    ELSE SpecialUpper(s)

\* str.lower()
lower(s) == MapSeq(s, LowerOf)

\* _canon of a text: keep alphanumerics, uppercase
_canon(s) == upper(SelectSeq(s, IsAlnum))

----------------------------------------------------------------------------
(* Sample data: the tables the files hold when the application starts *)

BC1    == <<"B", "C", "1">>
bc_2   == <<"b", "c", "-", "2">>
NoText == <<>>

\* the roster; Code is what the student card carries
Roster ==
    << [Code |-> <<"A", "-", "1">>, Name |-> "Ann", Surname |-> "Lee"],
       [Code |-> <<"b", "2">>,      Name |-> "Bo",  Surname |-> "Kim"] >>

\* a catalog row of Library_books.csv as the librarian typed it
Dune1 == [Book_ID |-> "",  Book_Title |-> "Dune", Barcode |-> BC1]
Dune2 == [Book_ID |-> "",  Book_Title |-> "Dune", Barcode |-> bc_2]
Emma7 == [Book_ID |-> "7", Book_Title |-> "Emma", Barcode |-> NoText]
\* a row with a barcode and no title (kept by load_books: not all three blank)
Untitled == [Book_ID |-> "", Book_Title |-> "", Barcode |-> bc_2]

\* the shelves the model starts from: two identical copies, two copies of
\* one title with different barcodes, two titles
SampleCatalogs == { <<Dune1, Dune1>>, <<Dune1, Dune2>>, <<Emma7, Untitled>> }

\* what a scanner or a keyboard can deliver ("" when nothing was scanned)
StudentScans == { NoText, <<"a", "1">> }
BarcodeScans == { NoText, <<"b", "c", "1", " ">> }

\* sorted() on the titles of the model
TitleRank(t) == CASE t = "" -> 0 [] t = "Dune" -> 1 [] t = "Emma" -> 2 [] OTHER -> 3

----------------------------------------------------------------------------
(* Data frames *)

\* df[mask]
Filter(df, Test(_)) == SelectSeq(df, Test)

\* the positions of df whose row passes Test, in row order
RECURSIVE IndexWhere(_, _, _)
IndexWhere(df, Test(_), i) ==
    IF i > Len(df) THEN <<>>
    ELSE (IF Test(df[i]) THEN <<i>> ELSE <<>>) \o IndexWhere(df, Test, i + 1)

Index(df, Test(_)) == IndexWhere(df, Test, 1)

\* set(series)
ValueSet(df, Col(_)) == { Col(df[i]) : i \in 1..Len(df) }

\* df_append / pd.concat([df, pd.DataFrame([row])], ignore_index=True)
df_append(df, row_dict) == Append(df, row_dict)

\* sorted(set of titles)
RECURSIVE sorted(_)
sorted(S) ==
    IF S = {} THEN <<>>
    ELSE LET m == CHOOSE x \in S : \A y \in S : TitleRank(x) <= TitleRank(y)
         IN  <<m>> \o sorted(S \ {m})

----------------------------------------------------------------------------
(* Loading and saving the three tables *)

\* _ROW_KEY of a row that has none: the empty cell read_csv(...).fillna("") gives
NoKey == <<>>

\* load_students: the roster with the canonical code of every row
load_students(file) ==
    [i \in 1..Len(file) |->
        [Code |-> strip(file[i].Code), Name |-> file[i].Name,
         Surname |-> file[i].Surname, _CODE_CANON |-> _canon(strip(file[i].Code))]]

\* a variant that keeps a value it does not know
NormStatus_keeping_unknown(v) ==
    IF v \in {"Borrowed", "borrowed", "BORROWED", "out", "Out", "issued", "Issued"}
    THEN "Borrowed" ELSE IF v \in {"", "Available"} THEN "Available" ELSE v

\* Status of load_books: lower-cased, mapped, anything else Available
NormStatus(v) ==
    IF v \in {"Borrowed", "borrowed", "BORROWED", "out", "Out", "issued", "Issued"}
    THEN "Borrowed" ELSE "Available"

\* rows of the catalog file that are completely empty
all_blank(r) == r.Book_Title = "" /\ r.Book_ID = "" /\ strip(r.Barcode) = NoText

\* a coarser numbering: the position of row i among the rows of its title
copy_num_by_title(df, i) ==
    Cardinality({ j \in 1..i : df[j].Book_Title = df[i].Book_Title })

\* groupby(["Book Title","Book ID","Barcode"]).cumcount() + 1: the 1-based
\* position of row i among the rows of its group, in row order
copy_num(df, i) ==
    Cardinality({ j \in 1..i : /\ df[j].Book_Title = df[i].Book_Title
                               /\ df[j].Book_ID = df[i].Book_ID
                               /\ df[j].Barcode = df[i].Barcode })

\* "Book Title||Book ID||Barcode||_copy_num"
MakeRowKey(r, n) == <<r.Book_Title, r.Book_ID, r.Barcode, n>>

\* load_books: the catalog as a data frame.  _ROW_KEY is computed only when
\* the file has no such column; a file saved by a handler that wrote the whole
\* frame has one, and its cells are read back as they are.
load_books(file) ==
    LET kept == SelectSeq(file.rows, LAMBDA r : ~all_blank(r))
        df   == [i \in 1..Len(kept) |->
                   [Book_ID    |-> kept[i].Book_ID,
                    Book_Title |-> kept[i].Book_Title,
                    Barcode    |-> strip(kept[i].Barcode),
                    Status     |-> NormStatus(kept[i].Status),
                    _ROW_KEY   |-> kept[i]._ROW_KEY]]
    IN  [i \in 1..Len(df) |->
           [Book_ID        |-> df[i].Book_ID,
            Book_Title     |-> df[i].Book_Title,
            Barcode        |-> df[i].Barcode,
            Status         |-> df[i].Status,
            _BARCODE_CANON |-> _canon(df[i].Barcode),
            _copy_num      |-> copy_num(df, i),
            _ROW_KEY       |-> IF file.has_ROW_KEY THEN df[i]._ROW_KEY
                               ELSE MakeRowKey(df[i], copy_num(df, i))]]

\* save_books(df) of a frame that still carries its _ROW_KEY column: every
\* column is written, so the file has a _ROW_KEY column from then on
save_books(df) ==
    [has_ROW_KEY |-> TRUE,
     rows |-> [i \in 1..Len(df) |->
                 [Book_ID |-> df[i].Book_ID, Book_Title |-> df[i].Book_Title,
                  Barcode |-> df[i].Barcode, Status |-> df[i].Status,
                  _ROW_KEY |-> df[i]._ROW_KEY]]]

\* Returned of load_logs: lower-cased, mapped, anything else No
NormReturned(v) ==
    IF v \in {"Yes", "yes", "YES", "y", "Y", "true", "True", "1"} THEN "Yes" ELSE "No"

\* a coarser test: rows that name neither a student nor a title
mask_no_student_no_title(r) ==
    r.Student = "" /\ r.Book_Title = ""

\* rows of the ledger file with Student, Book Title, Book ID and Barcode blank
mask_all_blank(r) ==
    r.Student = "" /\ r.Book_Title = "" /\ r.Book_ID = "" /\ strip(r.Barcode) = NoText

\* load_logs: the ledger as a data frame
load_logs(file) ==
    LET df == [i \in 1..Len(file) |->
                 [Student       |-> file[i].Student,
                  Book_Title    |-> file[i].Book_Title,
                  Book_ID       |-> file[i].Book_ID,
                  Date_Borrowed |-> file[i].Date_Borrowed,
                  Due_Date      |-> file[i].Due_Date,
                  Returned      |-> NormReturned(file[i].Returned),
                  Barcode       |-> strip(file[i].Barcode)]]
    IN  SelectSeq(df, LAMBDA r : ~mask_all_blank(r))

\* save_logs: the seven columns, whole file
save_logs(df) ==
    [i \in 1..Len(df) |->
        [Student       |-> df[i].Student,
         Book_Title    |-> df[i].Book_Title,
         Book_ID       |-> df[i].Book_ID,
         Date_Borrowed |-> df[i].Date_Borrowed,
         Due_Date      |-> df[i].Due_Date,
         Returned      |-> df[i].Returned,
         Barcode       |-> df[i].Barcode]]

\* now.strftime("%Y-%m-%d %H:%M:%S") and (now + timedelta(days)).strftime(...)
Timestamp(now) == now
DueTimestamp(now, days) == now + days * DaySeconds

----------------------------------------------------------------------------
(* Catalog <-> ledger sync *)

IsBorrowed(r)  == r.Status = "Borrowed"
IsAvailable(r) == r.Status = "Available"
IsOpen(r)      == r.Returned = "No"
TitleOf(r)     == r.Book_Title

\* the titles sync_missing_open_logs creates an open log for
to_create_titles(books_df, logs_df) ==
    LET borrowed_titles == ValueSet(Filter(books_df, IsBorrowed), TitleOf)
        open_log_titles == ValueSet(Filter(logs_df, IsOpen), TitleOf)
    IN  sorted(borrowed_titles \ open_log_titles)

\* a variant of the made-up row that is due after the short loan period
new_row_for_short_loan(books_df, title, now) ==
    LET sel == Filter(books_df, LAMBDA r : r.Book_Title = title)
    IN  [Student       |-> "",
         Book_Title    |-> title,
         Book_ID       |-> IF Len(sel) > 0 THEN sel[1].Book_ID ELSE "",
         Date_Borrowed |-> Timestamp(now),
         Due_Date      |-> DueTimestamp(now, ShortLoanDays),
         Returned      |-> "No",
         Barcode       |-> IF Len(sel) > 0 THEN sel[1].Barcode ELSE NoText]

\* the row sync_missing_open_logs makes up for a title: no student, Book ID
\* and Barcode of the first catalog row with that title, due in 14 days
new_row_for(books_df, title, now) ==
    LET sel == Filter(books_df, LAMBDA r : r.Book_Title = title)
    IN  [Student       |-> "",
         Book_Title    |-> title,
         Book_ID       |-> IF Len(sel) > 0 THEN sel[1].Book_ID ELSE "",
         Date_Borrowed |-> Timestamp(now),
         Due_Date      |-> DueTimestamp(now, DefaultLoanDays),
         Returned      |-> "No",
         Barcode       |-> IF Len(sel) > 0 THEN sel[1].Barcode ELSE NoText]

\* a variant of the repair that also closes the open logs of titles the
\* catalog has Available
sync_closing_stale_logs(books_df, logs_df, now) ==
    LET to_create == to_create_titles(books_df, logs_df)
        new_rows  == [k \in 1..Len(to_create) |-> new_row_for(books_df, to_create[k], now)]
        available == ValueSet(Filter(books_df, IsAvailable), TitleOf)
        closed    == [i \in 1..Len(logs_df) |->
                        IF IsOpen(logs_df[i]) /\ logs_df[i].Book_Title \in available
                        THEN [logs_df[i] EXCEPT !.Returned = "Yes"] ELSE logs_df[i]]
    IN  [merged |-> closed \o new_rows, to_create |-> to_create]

\* sync_missing_open_logs(books_df, logs_df) run at second now: (merged, to_create)
sync_missing_open_logs(books_df, logs_df, now) ==
    LET to_create == to_create_titles(books_df, logs_df)
        new_rows  == [k \in 1..Len(to_create) |-> new_row_for(books_df, to_create[k], now)]
    IN  [merged |-> logs_df \o new_rows, to_create |-> to_create]

\* health check of main(): titles Borrowed in the catalog with no open log
missing_log(books, logs) ==
    LET open_titles         == ValueSet(Filter(logs, IsOpen), TitleOf)
        borrowed_in_catalog == ValueSet(Filter(books, IsBorrowed), TitleOf)
    IN  sorted(borrowed_in_catalog \ open_titles)

\* health check of main(): titles with an open log that the catalog has Available
log_but_available(books, logs) ==
    LET open_titles      == ValueSet(Filter(logs, IsOpen), TitleOf)
        available_titles == ValueSet(Filter(books, IsAvailable), TitleOf)
    IN  sorted(open_titles \cap available_titles)

\* a variant of the trigger that forgets the session flag
AutoSyncDue_every_load(books_df, logs_df, autosynced) ==
    missing_log(books_df, logs_df) # <<>>

\* the automatic sync fires in a run that loaded books_df and logs_df
AutoSyncDue(books_df, logs_df, autosynced) ==
    missing_log(books_df, logs_df) # <<>> /\ ~autosynced

\* what a run leaves on the screen
Shown(msg) == [msg |-> msg]

----------------------------------------------------------------------------
(* Borrow tab *)

FullName(st) == st.Name \o " " \o st.Surname

\* the student a scanned code resolves to ("" when none)
selected_student(students_df, scan_student_code) ==
    IF strip(scan_student_code) = NoText THEN ""
    ELSE LET canon_code == _canon(strip(scan_student_code))
             hit == Filter(students_df, LAMBDA st : st._CODE_CANON = canon_code)
         IN  IF hit # <<>> THEN FullName(hit[1]) ELSE ""

\* a variant of the lookup that takes the first hit in file order
selected_rows_first_hit(books_df, scan_book_barcode) ==
    IF strip(scan_book_barcode) = NoText THEN {}
    ELSE LET canon_bar == _canon(strip(scan_book_barcode))
             hitb  == Filter(books_df, LAMBDA r : r._BARCODE_CANON = canon_bar)
         IN  IF hitb = <<>> THEN {} ELSE {hitb[1]}

\* the rows a scanned barcode can resolve to (none when nothing was scanned
\* or no row matches).  The hits are sorted by availability with an unstable
\* sort, so among the hits of the best availability any one may come first.
selected_rows(books_df, scan_book_barcode) ==
    IF strip(scan_book_barcode) = NoText THEN {}
    ELSE LET canon_bar == _canon(strip(scan_book_barcode))
             hitb  == Filter(books_df, LAMBDA r : r._BARCODE_CANON = canon_bar)
             avail == Filter(hitb, IsAvailable)
         IN  IF avail # <<>> THEN ValueSet(avail, LAMBDA r : r)
             ELSE ValueSet(hitb, LAMBDA r : r)

\* the row keys a scanned barcode can resolve to (NoKey when none)
selected_row_keys(books_df, scan_book_barcode) ==
    LET rows == selected_rows(books_df, scan_book_barcode)
    IN  IF rows = {} THEN {NoKey} ELSE { r._ROW_KEY : r \in rows }

\* what the operator can enter for the student: a scanned code, or a name of
\* the drop-down ("" when nothing)
StudentInputs(students_df) ==
    { [scan |-> sc, pick |-> ""] : sc \in StudentScans }
    \cup { [scan |-> NoText, pick |-> FullName(students_df[i])] : i \in 1..Len(students_df) }

\* what the operator can enter for the copy: a scanned barcode, or a row of
\* the copy list (0: none; a Borrowed row is listed when "Show borrowed
\* copies" is ticked)
CopyInputs(books_df) ==
    { [scan |-> sc, pick |-> 0] : sc \in BarcodeScans }
    \cup { [scan |-> NoText, pick |-> i] : i \in 1..Len(books_df) }

\* the ledger file after the borrow of catalog row r by final_student
borrow_write_log(log_file, final_student, r, days, now) ==
    LET logs_latest == load_logs(log_file)
        new_row == [Student       |-> final_student,
                    Book_Title    |-> r.Book_Title,
                    Book_ID       |-> r.Book_ID,
                    Date_Borrowed |-> Timestamp(now),
                    Due_Date      |-> DueTimestamp(now, days),
                    Returned      |-> "No",
                    Barcode       |-> r.Barcode]
    IN  save_logs(df_append(logs_latest, new_row))

\* a variant of the catalog update that marks every copy of the title
borrow_update_catalog_by_title(books_file, final_row_key) ==
    LET books_now == load_books(books_file)
        titles    == { books_now[i].Book_Title : i \in { j \in 1..Len(books_now) :
                                                   books_now[j]._ROW_KEY = final_row_key } }
    IN  save_books([i \in 1..Len(books_now) |->
                      IF books_now[i].Book_Title \in titles
                      THEN [books_now[i] EXCEPT !.Status = "Borrowed"]
                      ELSE books_now[i]])

\* the catalog file after the borrow of the row with key final_row_key
borrow_update_catalog(books_file, final_row_key) ==
    LET books_now == load_books(books_file)
    IN  save_books([i \in 1..Len(books_now) |->
                      IF books_now[i]._ROW_KEY = final_row_key
                      THEN [books_now[i] EXCEPT !.Status = "Borrowed"]
                      ELSE books_now[i]])

\* a variant of the gate that lets every borrow through
borrow_allowed_always(current_status, allow_override) == TRUE

\* the copy may be lent: it is not marked Borrowed, or the override is ticked
borrow_allowed(current_status, allow_override) ==
    ~(current_status = "Borrowed" /\ ~allow_override)

\* "Confirm Borrow" with the final selections, in a run that loaded books_df
ConfirmBorrow(books_df, final_student, final_row_key, days, allow_override, now) ==
    LET row == Filter(books_df, LAMBDA r : r._ROW_KEY = final_row_key)
    IN  IF final_student = "" \/ final_row_key = NoKey
        THEN /\ ui' = Shown("borrow_required")
             /\ UNCHANGED <<session, STUDENT_CSV, BOOKS_CSV, LOG_CSV, logs_autosynced>>
        ELSE IF row = <<>>
        THEN /\ ui' = Shown("borrow_copy_not_found")
             /\ UNCHANGED <<session, STUDENT_CSV, BOOKS_CSV, LOG_CSV, logs_autosynced>>
        ELSE IF ~borrow_allowed(row[1].Status, allow_override)
        THEN /\ ui' = Shown("borrow_already_borrowed")
             /\ UNCHANGED <<session, STUDENT_CSV, BOOKS_CSV, LOG_CSV, logs_autosynced>>
        ELSE /\ Len(LOG_CSV) < MaxLogs
             /\ LOG_CSV' = borrow_write_log(LOG_CSV, final_student, row[1], days, now)
             /\ BOOKS_CSV' = borrow_update_catalog(BOOKS_CSV, final_row_key)
             /\ ui' = Shown("borrowed")
             /\ UNCHANGED <<session, STUDENT_CSV, logs_autosynced>>

\* the student the Borrow tab settles on: the scanner wins over the drop-down
final_student_of(students_df, sin) ==
    LET sel == selected_student(students_df, sin.scan)
    IN  IF sel # "" THEN sel ELSE sin.pick

\* the row keys the Borrow tab can settle on: the scanner wins over the list
final_row_keys(books_df, cin) ==
    LET picked_key == IF cin.pick = 0 THEN NoKey ELSE books_df[cin.pick]._ROW_KEY
    IN  { IF k # NoKey THEN k ELSE picked_key : k \in selected_row_keys(books_df, cin.scan) }

\* the final selections the operator's inputs can give
FinalStudents(students_df) ==
    { final_student_of(students_df, sin) : sin \in StudentInputs(students_df) }

FinalRowKeys(books_df) ==
    UNION { final_row_keys(books_df, cin) : cin \in CopyInputs(books_df) }

\* one run of main() in which "Confirm Borrow" was pressed, the override
\* checkbox being in one of the states Overrides
BorrowWith(Overrides) ==
    LET students_df == load_students(STUDENT_CSV)
        books_df    == load_books(BOOKS_CSV)
        logs_df     == load_logs(LOG_CSV)
    IN  /\ ~AutoSyncDue(books_df, logs_df, logs_autosynced)
        /\ \E final_student \in FinalStudents(students_df),
              final_row_key \in FinalRowKeys(books_df),
              days \in LoanDayChoices, allow_override \in Overrides, now \in Clock :
              ConfirmBorrow(books_df, final_student, final_row_key,
                            days, allow_override, now)

Borrow == BorrowWith(BOOLEAN)

\* "Confirm Borrow" with the override checkbox left off
BorrowNoOverride == BorrowWith({FALSE})

----------------------------------------------------------------------------
(* Return tab *)

\* open_logs_view["Label"]
Label(r) == r.Student \o " - " \o r.Book_Title

\* positions (in logs_df) of the open rows: open_logs_view.index
open_index(logs_df) == Index(logs_df, IsOpen)

\* position in logs_df of the first open row whose barcode is the scanned one
\* (0: none, or nothing scanned)
idx_by_barcode(logs_df, barcode_return) ==
    IF strip(barcode_return) = NoText THEN 0
    ELSE LET canon_bar == _canon(strip(barcode_return))
             hits == Index(logs_df, LAMBDA r : IsOpen(r) /\ _canon(r.Barcode) = canon_bar)
         IN  IF hits # <<>> THEN hits[1] ELSE 0

\* 1-based place in the select box that is preselected
default_idx(logs_df, barcode_return) ==
    LET ib   == idx_by_barcode(logs_df, barcode_return)
        view == open_index(logs_df)
        at   == { k \in 1..Len(view) : view[k] = ib }
    IN  IF at # {} THEN CHOOSE k \in at : TRUE ELSE 1

\* position in logs_df of the row "Mark as Returned" works on: the first open
\* row that carries the selected label
returned_row(logs_df, place) ==
    LET view            == open_index(logs_df)
        selected_return == Label(logs_df[view[place]])
        same            == Index(logs_df, LAMBDA r : IsOpen(r) /\ Label(r) = selected_return)
    IN  same[1]

\* positions of the ledger rows matched by student, title and borrow time
matching_idx(logs_df, row) ==
    { i \in 1..Len(logs_df) : /\ logs_df[i].Student = row.Student
                              /\ logs_df[i].Book_Title = row.Book_Title
                              /\ logs_df[i].Date_Borrowed = row.Date_Borrowed }

\* the ledger file after the return of row
return_write_log(logs_df, row) ==
    LET idx == matching_idx(logs_df, row)
    IN  save_logs([i \in 1..Len(logs_df) |->
                     IF i \in idx THEN [logs_df[i] EXCEPT !.Returned = "Yes"]
                     ELSE logs_df[i]])

\* the catalog rows the return of row sets Available: title, Book ID and
\* barcode equal
return_mask(books_now, row) ==
    { i \in 1..Len(books_now) : /\ books_now[i].Book_Title = row.Book_Title
                                /\ books_now[i].Book_ID = row.Book_ID
                                /\ books_now[i].Barcode = strip(row.Barcode) }

\* the catalog file after the return of row (not written when no row matches)
return_update_catalog(books_file, row) ==
    LET books_now == load_books(books_file)
        mask      == return_mask(books_now, row)
    IN  IF mask # {}
        THEN save_books([i \in 1..Len(books_now) |->
                           IF i \in mask THEN [books_now[i] EXCEPT !.Status = "Available"]
                           ELSE books_now[i]])
        ELSE books_file

\* "Mark as Returned" with the entry at place of the select box chosen
MarkAsReturned(logs_df, place) ==
    LET row == logs_df[returned_row(logs_df, place)]
    IN  IF matching_idx(logs_df, row) # {}
        THEN /\ LOG_CSV' = return_write_log(logs_df, row)
             /\ BOOKS_CSV' = return_update_catalog(BOOKS_CSV, row)
             /\ ui' = Shown("returned")
             /\ UNCHANGED <<session, STUDENT_CSV, logs_autosynced>>
        ELSE /\ ui' = Shown("return_not_found")
             /\ UNCHANGED <<session, STUDENT_CSV, BOOKS_CSV, LOG_CSV, logs_autosynced>>

\* the places of the select box the operator can confirm: any entry, or the
\* one a scanned barcode preselects
ReturnPlaces(logs_df) ==
    (1..Len(open_index(logs_df)))
    \cup { default_idx(logs_df, sc) : sc \in BarcodeScans }

\* one run of main() in which "Mark as Returned" was pressed
Return ==
    LET books_df == load_books(BOOKS_CSV)
        logs_df  == load_logs(LOG_CSV)
    IN  /\ ~AutoSyncDue(books_df, logs_df, logs_autosynced)
        /\ open_index(logs_df) # <<>>
        /\ \E place \in ReturnPlaces(logs_df) : MarkAsReturned(logs_df, place)

----------------------------------------------------------------------------
(* Health check and sync in main() *)

\* the automatic sync, once per session; the run ends with st.rerun()
AutoSync ==
    LET books_df == load_books(BOOKS_CSV)
        logs_df  == load_logs(LOG_CSV)
    IN  /\ AutoSyncDue(books_df, logs_df, logs_autosynced)
        /\ \E now \in Clock :
             LET r == sync_missing_open_logs(books_df, logs_df, now)
             IN  /\ Len(r.merged) <= MaxLogs
                 /\ r.to_create # <<>>
                 /\ LOG_CSV' = save_logs(r.merged)
                 /\ logs_autosynced' = TRUE
                 /\ ui' = Shown("autosync_created")
        /\ UNCHANGED <<session, STUDENT_CSV, BOOKS_CSV>>

\* the "quick sync" button of the status health check
QuickSync ==
    LET books_df == load_books(BOOKS_CSV)
        logs_df  == load_logs(LOG_CSV)
    IN  /\ ~AutoSyncDue(books_df, logs_df, logs_autosynced)
        /\ missing_log(books_df, logs_df) # <<>> \/ log_but_available(books_df, logs_df) # <<>>
        /\ \E now \in Clock :
             LET r == sync_missing_open_logs(books_df, logs_df, now)
             IN  /\ Len(r.merged) <= MaxLogs
                 /\ IF r.to_create # <<>>
                    THEN /\ LOG_CSV' = save_logs(r.merged)
                         /\ ui' = Shown("quicksync_created")
                    ELSE /\ ui' = Shown("quicksync_nothing")
                         /\ UNCHANGED LOG_CSV
        /\ UNCHANGED <<session, STUDENT_CSV, BOOKS_CSV, logs_autosynced>>

\* "Logout": the session state is cleared and the next login starts a
\* session; no message is shown
Logout ==
    /\ logs_autosynced' = FALSE
    /\ UNCHANGED <<session, STUDENT_CSV, BOOKS_CSV, LOG_CSV, ui>>

----------------------------------------------------------------------------
(* The application *)

\* a catalog file nobody saved yet: the rows of a sample catalog, each with a
\* status, and no _ROW_KEY column
CatalogFile(c, st) ==
    [has_ROW_KEY |-> FALSE,
     rows |-> [i \in 1..Len(c) |->
                 [Book_ID |-> c[i].Book_ID, Book_Title |-> c[i].Book_Title,
                  Barcode |-> c[i].Barcode, Status |-> st[i], _ROW_KEY |-> NoKey]]]

CatalogFiles ==
    UNION { { CatalogFile(c, st) : st \in [1..Len(c) -> {"Available", "Borrowed"}] } :
            c \in SampleCatalogs }

Init ==
    /\ STUDENT_CSV = Roster
    /\ BOOKS_CSV \in CatalogFiles
    /\ LOG_CSV = <<>>
    /\ logs_autosynced = FALSE
    /\ ui = Shown("start")
    /\ session = [s \in Sessions |-> Idle]

Next ==
    \/ AutoSync
    \/ QuickSync
    \/ Borrow
    \/ Return
    \/ Logout

Spec == Init /\ [][Next]_vars

----------------------------------------------------------------------------
(* Borrow and Return alone, from a consistent state: every copy Available, *)
(* the ledger empty, the override never ticked                             *)

InitConsistent ==
    /\ Init
    /\ \A i \in 1..Len(BOOKS_CSV.rows) : BOOKS_CSV.rows[i].Status = "Available"

NextBorrowReturn ==
    \/ BorrowNoOverride
    \/ Return

SpecBorrowReturn == InitConsistent /\ [][NextBorrowReturn]_vars

----------------------------------------------------------------------------
(* Borrow followed at once by the return of the new loan, as one step *)

\* "Confirm Borrow" of the Available row i by final_student, then "Mark as
\* Returned" with the new loan (the last entry of the select box) chosen
BorrowThenReturnOf(final_student, i, days, now) ==
    LET books_df == load_books(BOOKS_CSV)
        logs_df  == load_logs(LOG_CSV)
        key      == books_df[i]._ROW_KEY
        log1     == borrow_write_log(LOG_CSV, final_student, books_df[i], days, now)
        books1   == borrow_update_catalog(BOOKS_CSV, key)
        logs_df1 == load_logs(log1)
        place    == Len(open_index(logs_df1))
        row      == logs_df1[returned_row(logs_df1, place)]
    IN  /\ ~AutoSyncDue(books_df, logs_df, logs_autosynced)
        /\ books_df[i].Status = "Available"
        /\ key # NoKey
        /\ Len(LOG_CSV) < MaxLogs
        /\ ~AutoSyncDue(load_books(books1), logs_df1, logs_autosynced)
        /\ LOG_CSV' = return_write_log(logs_df1, row)
        /\ BOOKS_CSV' = return_update_catalog(books1, row)
        /\ ui' = Shown("borrowed_then_returned")
        /\ UNCHANGED <<session, STUDENT_CSV, logs_autosynced>>

BorrowThenReturn ==
    \E k \in 1..Len(STUDENT_CSV), i \in 1..Len(load_books(BOOKS_CSV)),
       days \in LoanDayChoices, now \in Clock :
       BorrowThenReturnOf(FullName(STUDENT_CSV[k]), i, days, now)

NextRoundTrip ==
    \/ Next
    \/ BorrowThenReturn

SpecRoundTrip == Init /\ [][NextRoundTrip]_vars

----------------------------------------------------------------------------
(* Vocabulary of the properties *)

\* the borrowers of the roster, by the label the ledger carries
Borrowers == { FullName(STUDENT_CSV[k]) : k \in 1..Len(STUDENT_CSV) }

\* the row keys of a loaded catalog
KeysOf(books_df) == { books_df[i]._ROW_KEY : i \in 1..Len(books_df) } \ {NoKey}

\* the first row of a loaded catalog with key
RowOf(books_df, key) == Filter(books_df, LAMBDA r : r._ROW_KEY = key)[1]

\* the run gets past the health check to the tabs: no automatic sync is due
ReachesTabs == ~AutoSyncDue(load_books(BOOKS_CSV), load_logs(LOG_CSV), logs_autosynced)

\* the step is a run in which "Mark as Returned" was pressed with the entry at
\* place of the select box chosen
ReturnStep(logs_df, place) ==
    /\ place \in 1..Len(open_index(logs_df))
    /\ MarkAsReturned(logs_df, place)

\* the messages a run of "Confirm Borrow" can show
BorrowMessages ==
    {"borrow_required", "borrow_copy_not_found", "borrow_already_borrowed", "borrowed"}

\* the messages a run of "Mark as Returned" can show
ReturnMessages == {"returned", "return_not_found"}

\* B has an open loan in the loaded ledger
HasOpenLoan(logs_df, B) ==
    \E i \in 1..Len(logs_df) : IsOpen(logs_df[i]) /\ logs_df[i].Student = B

\* title, Book ID and barcode: what a ledger entry says about its copy
Identity(r) == <<r.Book_Title, r.Book_ID, r.Barcode>>

\* the status of every loaded catalog row, before and after the step
StatusBefore(i) == load_books(BOOKS_CSV)[i].Status
StatusAfter(i)  == load_books(BOOKS_CSV')[i].Status

\* the ledger rows the step closed
ClosedByStep ==
    { i \in 1..Len(LOG_CSV) : i <= Len(LOG_CSV') /\ LOG_CSV[i].Returned = "No"
                              /\ LOG_CSV'[i].Returned = "Yes" }

\* the ledger rows the step changed or removed
ChangedByStep ==
    { i \in 1..Len(LOG_CSV) : i > Len(LOG_CSV') \/ LOG_CSV'[i] # LOG_CSV[i] }

----------------------------------------------------------------------------
(* C1..C10 *)

\* C1: one open loan per borrower: a Borrow confirmed with the override off
\* for a borrower who already has an open ledger entry is rejected and leaves
\* the ledger and the catalog as they were.
C1_OneOpenLoanPerBorrower ==
    [][ (ui'.msg \in BorrowMessages /\ ReachesTabs) =>
        LET books_df == load_books(BOOKS_CSV)
            logs_df  == load_logs(LOG_CSV)
        IN  \A B \in Borrowers, key \in KeysOf(books_df),
               days \in LoanDayChoices, now \in Clock :
              (HasOpenLoan(logs_df, B) /\ ConfirmBorrow(books_df, B, key, days, FALSE, now))
              => (LOG_CSV' = LOG_CSV /\ BOOKS_CSV' = BOOKS_CSV) ]_vars

\* C2: catalog-ledger correspondence: after any sequence of Borrow (override
\* off) and Return from a consistent state, every open ledger entry has a
\* Borrowed copy of its own: for each open entry, the copies with its title,
\* Book ID and barcode that are Borrowed are at least as many as the open
\* entries with that title, Book ID and barcode.
C2_CatalogLedgerCorrespondence ==
    LET books_df == load_books(BOOKS_CSV)
        logs_df  == load_logs(LOG_CSV)
    IN  \A i \in 1..Len(logs_df) :
          IsOpen(logs_df[i]) =>
            Cardinality({ j \in 1..Len(books_df) :
                            IsBorrowed(books_df[j])
                            /\ Identity(books_df[j]) = Identity(logs_df[i]) })
            >= Cardinality({ k \in 1..Len(logs_df) :
                            IsOpen(logs_df[k])
                            /\ Identity(logs_df[k]) = Identity(logs_df[i]) })

\* C3: Borrow/Return round trip: borrowing the Available copy i for B and then
\* returning that loan leaves copy i Available and the new entry Returned =
\* Yes, and the status of every other copy and every other ledger entry as
\* they were before the Borrow.
C3_BorrowReturnRoundTrip ==
    [][ \A B \in Borrowers, i \in 1..Len(load_books(BOOKS_CSV)),
           days \in LoanDayChoices, now \in Clock :
          BorrowThenReturnOf(B, i, days, now)
          => /\ StatusAfter(i) = "Available"
             /\ Len(LOG_CSV') = Len(LOG_CSV) + 1
             /\ LOG_CSV'[Len(LOG_CSV) + 1].Returned = "Yes"
             /\ \A j \in 1..Len(load_books(BOOKS_CSV)) :
                  j # i => StatusAfter(j) = StatusBefore(j)
             /\ \A k \in 1..Len(LOG_CSV) : LOG_CSV'[k] = LOG_CSV[k] ]_vars

\* C4: effect of a successful Borrow of the copy with key by B for days days:
\* the ledger gains exactly one entry, with B's label, the copy's title, Book
\* ID and barcode, Returned = No and Due Date = Date Borrowed + days days; the
\* copy's status becomes Borrowed; no existing entry and no other copy's
\* status changes.
C4_BorrowEffect ==
    [][ (ui'.msg = "borrowed" /\ ReachesTabs) =>
        LET books_df  == load_books(BOOKS_CSV)
            books_now == load_books(BOOKS_CSV')
        IN  \A B \in Borrowers, key \in KeysOf(books_df), days \in LoanDayChoices,
               allow_override \in BOOLEAN, now \in Clock :
              ConfirmBorrow(books_df, B, key, days, allow_override, now)
              => LET new == LOG_CSV'[Len(LOG_CSV')]
                 IN  /\ Len(LOG_CSV') = Len(LOG_CSV) + 1
                     /\ SubSeq(LOG_CSV', 1, Len(LOG_CSV)) = LOG_CSV
                     /\ new.Student = B
                     /\ Identity(new) = Identity(RowOf(books_df, key))
                     /\ new.Returned = "No"
                     /\ new.Due_Date = new.Date_Borrowed + days * DaySeconds
                     /\ Len(books_now) = Len(books_df)
                     /\ \A j \in 1..Len(books_df) :
                          books_now[j].Status = IF books_df[j]._ROW_KEY = key
                                                THEN "Borrowed" ELSE books_df[j].Status ]_vars

\* a Borrow was accepted while the ledger already held an entry
C4_Witness ==
    /\ ui.msg = "borrowed"
    /\ Len(LOG_CSV) >= 2
    /\ LOG_CSV[Len(LOG_CSV)].Student \in Borrowers
    /\ LOG_CSV[Len(LOG_CSV)].Returned = "No"
    /\ \E i \in 1..Len(load_books(BOOKS_CSV)) :
         /\ IsBorrowed(load_books(BOOKS_CSV)[i])
         /\ Identity(load_books(BOOKS_CSV)[i]) = Identity(LOG_CSV[Len(LOG_CSV)])
    /\ \E i \in 1..Len(load_books(BOOKS_CSV)) : IsAvailable(load_books(BOOKS_CSV)[i])

\* C5: a Borrow confirmed for a copy whose status is Borrowed is rejected with
\* the override off, changing neither the ledger nor the catalog, and is
\* accepted with the override on.
C5_OverrideGate ==
    [][ (ui'.msg \in BorrowMessages /\ ReachesTabs) =>
        LET books_df == load_books(BOOKS_CSV)
        IN  \A key \in KeysOf(books_df) :
              RowOf(books_df, key).Status = "Borrowed" =>
              \A B \in Borrowers, days \in LoanDayChoices, now \in Clock :
                /\ ConfirmBorrow(books_df, B, key, days, FALSE, now)
                   => /\ ui'.msg = "borrow_already_borrowed"
                      /\ LOG_CSV' = LOG_CSV
                      /\ BOOKS_CSV' = BOOKS_CSV
                /\ ConfirmBorrow(books_df, B, key, days, TRUE, now)
                   => /\ ui'.msg = "borrowed"
                      /\ Len(LOG_CSV') = Len(LOG_CSV) + 1
                      /\ LOG_CSV'[Len(LOG_CSV')].Student = B ]_vars

\* a Borrow of a Borrowed copy was rejected
C5_Witness ==
    /\ ui.msg = "borrow_already_borrowed"
    /\ \E i \in 1..Len(load_books(BOOKS_CSV)) : IsBorrowed(load_books(BOOKS_CSV)[i])

\* C6: return by scanned barcode: when the scan's canonical key is the
\* canonical barcode of an open entry, confirming the return closes an open
\* entry, every entry it closes has that canonical barcode, and the copies
\* with that barcode are Available afterwards.
C6_ReturnByScannedBarcode ==
    [][ (ui'.msg \in ReturnMessages /\ ReachesTabs) =>
        LET logs_df   == load_logs(LOG_CSV)
            books_now == load_books(BOOKS_CSV')
        IN  \A sc \in BarcodeScans :
              ( /\ strip(sc) # NoText
                /\ idx_by_barcode(logs_df, sc) # 0
                /\ ReturnStep(logs_df, default_idx(logs_df, sc)) )
              => /\ ClosedByStep # {}
                 /\ \A i \in ClosedByStep : _canon(LOG_CSV[i].Barcode) = _canon(strip(sc))
                 /\ \A j \in 1..Len(books_now) :
                      books_now[j]._BARCODE_CANON = _canon(strip(sc))
                      => books_now[j].Status = "Available" ]_vars

\* C7: a Return that finds no matching entry changes neither the ledger nor
\* the catalog, and a Return changes no ledger entry other than the one it
\* matched.
C7_ReturnChangesOneEntry ==
    [][ (ui'.msg \in ReturnMessages /\ ReachesTabs) =>
        \A place \in 1..MaxLogs :
          ReturnStep(load_logs(LOG_CSV), place)
          => /\ ui'.msg = "return_not_found"
                => (LOG_CSV' = LOG_CSV /\ BOOKS_CSV' = BOOKS_CSV)
             /\ Len(LOG_CSV') = Len(LOG_CSV)
             /\ Cardinality(ChangedByStep) <= 1 ]_vars

\* the step is a run of the reconciler: the automatic sync or the quick sync
SyncStep == AutoSync \/ QuickSync

\* the messages a run of the reconciler can show
SyncMessages == {"autosync_created", "quicksync_created", "quicksync_nothing"}

\* the loaded ledger after sync_missing_open_logs was applied at second now
\* and its result saved
LogsAfterRepair(books_df, logs_df, now) ==
    load_logs(save_logs(sync_missing_open_logs(books_df, logs_df, now).merged))

\* C8: reconciler idempotence: for the catalog and ledger of any state, after
\* the repair is applied and saved, the divergence recomputed on the reloaded
\* ledger has an empty missing_open_logs, and a second repair adds no entry;
\* and the state a sync run leaves has nothing missing.
C8_ReconcilerIdempotent ==
    LET books_df == load_books(BOOKS_CSV)
        logs_df  == load_logs(LOG_CSV)
    IN  /\ \A now \in Clock :
             LET reloaded == LogsAfterRepair(books_df, logs_df, now)
             IN  /\ missing_log(books_df, reloaded) = <<>>
                 /\ \A again \in Clock :
                      /\ sync_missing_open_logs(books_df, reloaded, again).to_create = <<>>
                      /\ LogsAfterRepair(books_df, reloaded, again) = reloaded
        /\ ui.msg \in {"autosync_created", "quicksync_created"}
             => missing_log(books_df, logs_df) = <<>>

\* the automatic sync has created an open log for a Borrowed copy
C8_Witness ==
    /\ ui.msg = "autosync_created"
    /\ logs_autosynced
    /\ \E i \in 1..Len(LOG_CSV) : LOG_CSV[i].Student = "" /\ LOG_CSV[i].Returned = "No"
    /\ \E j \in 1..Len(load_books(BOOKS_CSV)) : IsBorrowed(load_books(BOOKS_CSV)[j])

\* the Borrowed copies whose title no open ledger entry carries
CopiesMissingOpenLog ==
    LET books_df == load_books(BOOKS_CSV)
        logs_df  == load_logs(LOG_CSV)
    IN  { j \in 1..Len(books_df) :
            /\ IsBorrowed(books_df[j])
            /\ ~\E i \in 1..Len(logs_df) :
                  IsOpen(logs_df[i]) /\ logs_df[i].Book_Title = books_df[j].Book_Title }

\* C9: the repair adds one open entry for each Borrowed copy that has no open
\* entry: with k such copies, exactly k entries are added.
C9_RepairAddsOnePerCopy ==
    [][ SyncStep => Len(LOG_CSV') = Len(LOG_CSV) + Cardinality(CopiesMissingOpenLog) ]_vars

\* C10: the reconciler never fabricates a borrower: every entry a sync run
\* adds has an empty Student, Returned = No and Due Date = Date Borrowed + 14
\* days, and the run changes no entry that was there.
C10_ReconcilerNeverFabricates ==
    [][ (ui'.msg \in SyncMessages /\ SyncStep)
        => /\ Len(LOG_CSV') >= Len(LOG_CSV)
           /\ SubSeq(LOG_CSV', 1, Len(LOG_CSV)) = LOG_CSV
           /\ \A i \in (Len(LOG_CSV) + 1)..Len(LOG_CSV') :
                /\ LOG_CSV'[i].Student = ""
                /\ LOG_CSV'[i].Returned = "No"
                /\ LOG_CSV'[i].Due_Date
                     = LOG_CSV'[i].Date_Borrowed + DefaultLoanDays * DaySeconds ]_vars

\* the quick sync has created an open log with no borrower
C10_Witness ==
    /\ ui.msg = "quicksync_created"
    /\ LOG_CSV # <<>>
    /\ LOG_CSV[Len(LOG_CSV)].Student = ""
    /\ LOG_CSV[Len(LOG_CSV)].Returned = "No"
    /\ LOG_CSV[Len(LOG_CSV)].Due_Date
         = LOG_CSV[Len(LOG_CSV)].Date_Borrowed + DefaultLoanDays * DaySeconds

----------------------------------------------------------------------------
(* Catalog tab: "Save changes" of the data editor *)

\* what the operator can type into a Status cell
TypedStatuses == {"issued", "lost"}

\* the Status the handler stores for an edited cell
edited_status(typed) == IF NormStatus(typed) = "Borrowed" THEN "Borrowed" ELSE "Available"

\* the catalog file after the editor's rows were written back, the Status
\* cell of row i having been retyped; _ROW_KEY is saved as it was loaded
catalog_save_changes(books_file, i, typed) ==
    LET books_now == load_books(books_file)
        updated   == [j \in 1..Len(books_now) |->
                        IF j = i THEN [books_now[j] EXCEPT !.Status = edited_status(typed)]
                        ELSE books_now[j]]
    IN  save_books([j \in 1..Len(updated) |->
                      [updated[j] EXCEPT !.Status = NormStatus(updated[j].Status)]])

\* one run of main() in which "Save changes" of the Catalog tab was pressed
SaveCatalog ==
    LET books_now == load_books(BOOKS_CSV)
    IN  /\ ReachesTabs
        /\ \E i \in 1..Len(books_now), typed \in TypedStatuses :
              BOOKS_CSV' = catalog_save_changes(BOOKS_CSV, i, typed)
        /\ ui' = Shown("catalog_saved")
        /\ UNCHANGED <<session, STUDENT_CSV, LOG_CSV, logs_autosynced>>

----------------------------------------------------------------------------
(* The health check and the syncs, with the catalog edited in between *)

NextSync ==
    \/ AutoSync
    \/ QuickSync
    \/ Logout
    \/ SaveCatalog

SpecSync == Init /\ [][NextSync]_vars

\* the open ledger entries whose title the catalog has Available
StaleOpenLogs(books_df, logs_df) ==
    { i \in 1..Len(logs_df) :
        /\ IsOpen(logs_df[i])
        /\ \E j \in 1..Len(books_df) :
              IsAvailable(books_df[j]) /\ books_df[j].Book_Title = logs_df[i].Book_Title }

\* C11: stale open logs are never auto-repaired: a run of the automatic sync
\* or of the quick sync only appends to the ledger; every entry that was there
\* keeps its place and all its fields, no copy's status changes, and every
\* open entry whose title is Available in the catalog is still open.
C11_StaleLogsNotAutoRepaired ==
    [][ (ui'.msg \in SyncMessages /\ SyncStep) =>
        LET books_df == load_books(BOOKS_CSV)
            logs_df  == load_logs(LOG_CSV)
            logs_now == load_logs(LOG_CSV')
        IN  /\ BOOKS_CSV' = BOOKS_CSV
            /\ Len(LOG_CSV') >= Len(LOG_CSV)
            /\ \A i \in 1..Len(LOG_CSV) : LOG_CSV'[i] = LOG_CSV[i]
            /\ \A i \in StaleOpenLogs(books_df, logs_df) :
                  i \in StaleOpenLogs(load_books(BOOKS_CSV'), logs_now) ]_vars

\* a sync has created an open log while a stale open log was in the ledger,
\* and the stale log is still open
C11_Witness ==
    /\ ui.msg \in {"autosync_created", "quicksync_created"}
    /\ Len(LOG_CSV) >= 2
    /\ LOG_CSV[Len(LOG_CSV)].Student = ""
    /\ \E i \in StaleOpenLogs(load_books(BOOKS_CSV), load_logs(LOG_CSV)) :
         i < Len(LOG_CSV)

----------------------------------------------------------------------------
(* Delete tab *)

\* save_students: the roster without the _CODE_CANON column, whole file
save_students(df) ==
    [i \in 1..Len(df) |-> [Code |-> df[i].Code, Name |-> df[i].Name, Surname |-> df[i].Surname]]

\* the words names are made of
NameWords == {"Ann", "Lee", "Bo", "Kim"}

\* " ".join(words)
RECURSIVE Join(_)
Join(words) ==
    IF Len(words) = 1 THEN words[1] ELSE words[1] \o " " \o Join(Tail(words))

\* text.strip().split() of a name made of one to three words
split(text) ==
    CHOOSE words \in UNION { [1..n -> NameWords] : n \in 1..3 } : Join(words) = text

\* the roster file after "Delete Student" of the selected name
delete_student(students_file, to_delete) ==
    LET students_now == load_students(students_file)
        parts        == split(to_delete)
        name_part    == IF Len(parts) > 1 THEN Join(SubSeq(parts, 1, Len(parts) - 1))
                        ELSE parts[1]
        surname_part == IF Len(parts) > 1 THEN parts[Len(parts)] ELSE ""
    IN  save_students(SelectSeq(students_now,
                                LAMBDA st : ~(st.Name = name_part /\ st.Surname = surname_part)))

\* the catalog file after "Delete Book Copy" of the copy with key
delete_book_copy(books_file, key) ==
    save_books(SelectSeq(load_books(books_file), LAMBDA r : r._ROW_KEY # key))

\* a variant of "Delete Student" that also drops the ledger rows of the student
DeleteStudent_cascading ==
    LET students_now == load_students(STUDENT_CSV)
    IN  /\ ReachesTabs
        /\ \E k \in 1..Len(students_now) :
              LET to_delete == FullName(students_now[k])
              IN  /\ STUDENT_CSV' = delete_student(STUDENT_CSV, to_delete)
                  /\ LOG_CSV' = save_logs(SelectSeq(load_logs(LOG_CSV),
                                                    LAMBDA r : r.Student # to_delete))
        /\ ui' = Shown("student_deleted")
        /\ UNCHANGED <<session, BOOKS_CSV, logs_autosynced>>

\* one run of main() in which "Delete Student" was pressed
DeleteStudent ==
    LET students_now == load_students(STUDENT_CSV)
    IN  /\ ReachesTabs
        /\ \E k \in 1..Len(students_now) :
              STUDENT_CSV' = delete_student(STUDENT_CSV, FullName(students_now[k]))
        /\ ui' = Shown("student_deleted")
        /\ UNCHANGED <<session, BOOKS_CSV, LOG_CSV, logs_autosynced>>

\* one run of main() in which "Delete Book Copy" was pressed, with the copy at
\* pick of the select box chosen (0: the empty entry)
DeleteBookCopy ==
    LET books_now == load_books(BOOKS_CSV)
    IN  /\ ReachesTabs
        /\ books_now # <<>>
        /\ \E pick \in 0..Len(books_now) :
              LET key == IF pick = 0 THEN NoKey ELSE books_now[pick]._ROW_KEY
              IN  IF key # NoKey
                  THEN /\ BOOKS_CSV' = delete_book_copy(BOOKS_CSV, key)
                       /\ ui' = Shown("copy_deleted")
                  ELSE /\ ui' = Shown("nothing_selected")
                       /\ UNCHANGED BOOKS_CSV
        /\ UNCHANGED <<session, STUDENT_CSV, LOG_CSV, logs_autosynced>>

----------------------------------------------------------------------------
(* Borrow and Return with students and copies deleted in between, on a    *)
(* shelf with two copies of one title                                      *)

InitTwoCopies ==
    /\ Init
    /\ \E st \in [1..2 -> {"Available", "Borrowed"}] :
         BOOKS_CSV = CatalogFile(<<Dune1, Dune2>>, st)

NextDelete ==
    \/ AutoSync
    \/ BorrowNoOverride
    \/ Return
    \/ DeleteStudent
    \/ DeleteBookCopy

SpecDelete == InitTwoCopies /\ [][NextDelete]_vars

\* the messages of the Delete tab
DeleteMessages == {"student_deleted", "copy_deleted", "nothing_selected"}

\* C13: deletion does not cascade: a run that deletes a student or a copy
\* leaves the ledger file exactly as it was, every entry with every field,
\* also when entries name the deleted student or copy.
C13_DeletionDoesNotCascade ==
    [][ (ui'.msg \in DeleteMessages /\ (DeleteStudent \/ DeleteBookCopy))
        => LOG_CSV' = LOG_CSV ]_vars

\* a student was deleted while the ledger holds an entry in that student's name
C13_Witness ==
    /\ ui.msg = "student_deleted"
    /\ \E i \in 1..Len(LOG_CSV) :
         /\ LOG_CSV[i].Student # ""
         /\ \A k \in 1..Len(STUDENT_CSV) : FullName(STUDENT_CSV[k]) # LOG_CSV[i].Student

\* C12: trigger policy: in a run that finds missing_log non-empty while the
\* session has not synced yet, the automatic sync is what happens, it leaves
\* nothing missing and sets the session flag; once the flag is set no
\* automatic sync happens in the session; and when something is missing
\* later in the session, entries without a borrower are added only by the
\* quick sync, which leaves nothing missing.
C12_TriggerPolicy ==
    [][ LET books_df == load_books(BOOKS_CSV)
            logs_df  == load_logs(LOG_CSV)
            missing  == missing_log(books_df, logs_df)
            after    == missing_log(load_books(BOOKS_CSV'), load_logs(LOG_CSV'))
        IN  /\ (missing # <<>> /\ ~logs_autosynced)
                 => (AutoSync /\ logs_autosynced' /\ after = <<>>)
            /\ logs_autosynced => ~AutoSync
            /\ ( /\ logs_autosynced
                  /\ Len(LOG_CSV') > Len(LOG_CSV)
                  /\ LOG_CSV'[Len(LOG_CSV')].Student = "" )
                 => (missing # <<>> /\ QuickSync /\ after = <<>>) ]_vars

\* after the automatic sync of the session, a later divergence was repaired
\* by the quick sync
C12_Witness ==
    /\ logs_autosynced
    /\ ui.msg = "quicksync_created"
    /\ Len(LOG_CSV) >= 2
    /\ \A i \in 1..Len(LOG_CSV) : LOG_CSV[i].Student = ""

----------------------------------------------------------------------------
(* Logs tab: "Edit an Existing Log" *)

\* the label of a ledger row in "Choose a log entry": student, title and
\* borrow time, joined by " | "
edit_label(r) == <<r.Student, r.Book_Title, r.Date_Borrowed>>

\* logs_sel[label == sel_label].index[0]: the first row carrying the label
edit_idx(logs, sel_label) ==
    Index(logs, LAMBDA r : edit_label(r) = sel_label)[1]

\* logs.drop(index=idx).reset_index(drop=True)
drop_row(logs, idx) ==
    [i \in 1..(Len(logs) - 1) |-> IF i < idx THEN logs[i] ELSE logs[i + 1]]

\* a variant that leaves the Status column as it was loaded
title_status_kept(books_now, title, status) == save_books(books_now)

\* books_now.loc[books_now["Book Title"] == title, "Status"] = status, saved
title_status_saved(books_now, title, status) ==
    save_books([i \in 1..Len(books_now) |->
                  IF books_now[i].Book_Title = title
                  THEN [books_now[i] EXCEPT !.Status = status]
                  ELSE books_now[i]])

\* the Book ID "Save Changes" stores: the old one, or, when that is blank, the
\* Book ID of the first catalog row with the title typed
edit_book_id(books_now, old_id, e_book) ==
    IF old_id # "" THEN old_id
    ELSE LET match == Filter(books_now, LAMBDA r : r.Book_Title = e_book)
         IN  IF match # <<>> THEN match[1].Book_ID ELSE ""

\* the ledger frame after "Save Changes" on the row at idx
edit_save_changes(logs, books_now, idx, e_student, e_book, e_returned) ==
    [i \in 1..Len(logs) |->
        IF i = idx
        THEN [logs[i] EXCEPT !.Student    = e_student,
                             !.Book_Title = e_book,
                             !.Book_ID    = edit_book_id(books_now, logs[i].Book_ID, e_book),
                             !.Returned   = e_returned]
        ELSE logs[i]]

\* the Book Title field of the editor, left as the entry has it
EditTitles(row) == {row.Book_Title}

\* one run of main() in which "Save Changes" of the log editor was pressed
SaveChanges ==
    LET logs      == load_logs(LOG_CSV)
        books_now == load_books(BOOKS_CSV)
    IN  /\ ReachesTabs
        /\ logs # <<>>
        /\ \E p \in 1..Len(logs) :
              LET row == logs[edit_idx(logs, edit_label(logs[p]))]
                  idx == edit_idx(logs, edit_label(logs[p]))
              IN  \E e_book \in EditTitles(row), e_returned \in {"No", "Yes"} :
                     /\ LOG_CSV' = save_logs(edit_save_changes(logs, books_now, idx,
                                                row.Student, e_book, e_returned))
                     /\ BOOKS_CSV' = title_status_saved(books_now, e_book,
                                        IF e_returned = "Yes" THEN "Available"
                                        ELSE "Borrowed")
        /\ ui' = Shown("log_updated")
        /\ UNCHANGED <<session, STUDENT_CSV, logs_autosynced>>

\* one run of main() in which "Delete This Log" of the log editor was pressed
DeleteThisLog ==
    LET logs      == load_logs(LOG_CSV)
        books_now == load_books(BOOKS_CSV)
    IN  /\ ReachesTabs
        /\ logs # <<>>
        /\ \E p \in 1..Len(logs) :
              LET idx   == edit_idx(logs, edit_label(logs[p]))
                  title == logs[idx].Book_Title
              IN  /\ LOG_CSV' = save_logs(drop_row(logs, idx))
                  /\ BOOKS_CSV' = title_status_saved(books_now, title, "Available")
        /\ ui' = Shown("log_deleted")
        /\ UNCHANGED <<session, STUDENT_CSV, logs_autosynced>>

----------------------------------------------------------------------------
(* Borrow with the ledger edited in between, on a shelf with two copies   *)
(* of one title; an entry is closed by "Save Changes" with Returned Yes    *)

NextLogs ==
    \/ AutoSync
    \/ BorrowNoOverride
    \/ SaveChanges
    \/ DeleteThisLog

SpecLogs == InitTwoCopies /\ [][NextLogs]_vars

\* the positions of the loaded ledger whose removal gives the ledger after
\* the step
RemovedByStep ==
    LET logs == load_logs(LOG_CSV)
    IN  { i \in 1..Len(logs) : load_logs(LOG_CSV') = drop_row(logs, i) }

\* C14: deleting a ledger entry through the log editor reverts its copy: the
\* step removes exactly one entry from the ledger, and after it every catalog
\* row with the title, Book ID and barcode of the removed entry is Available.
C14_DeleteLogRevertsCopy ==
    [][ (ui'.msg = "log_deleted" /\ DeleteThisLog) =>
        LET logs      == load_logs(LOG_CSV)
            books_aft == load_books(BOOKS_CSV')
        IN  /\ RemovedByStep # {}
            /\ \A i \in RemovedByStep :
                 \A j \in 1..Len(books_aft) :
                    Identity(books_aft[j]) = Identity(logs[i])
                       => books_aft[j].Status = "Available" ]_vars

\* a log was deleted while another loan of the same title was open: the
\* deleted entry's title is Available on every row, the other entry is still
\* in the ledger
C14_Witness ==
    /\ ui.msg = "log_deleted"
    /\ Len(LOG_CSV) = 1
    /\ LOG_CSV[1].Returned = "No"
    /\ LOG_CSV[1].Student \in Borrowers
    /\ \A j \in 1..Len(BOOKS_CSV.rows) :
          /\ BOOKS_CSV.rows[j].Book_Title = LOG_CSV[1].Book_Title
          /\ BOOKS_CSV.rows[j].Status = "Available"

----------------------------------------------------------------------------
(* Add tab: "Add Book" *)

\* the catalog is not grown beyond this many rows
MaxBooks == 3

\* what the operator can type into Book Title and into Barcode / ISBN
TypedTitles   == {"", "Dune"}
TypedBarcodes == {<<"b", "c", "1", " ">>}

\* the catalog file after "Add Book": the loaded frame with one more row,
\* which has Status Available and no _copy_num and no _ROW_KEY cell
add_book(books_file, title, book_id, barcode) ==
    LET books_now == load_books(books_file)
    IN  save_books(df_append(books_now,
                     [Book_ID        |-> book_id,
                      Book_Title     |-> title,
                      Barcode        |-> strip(barcode),
                      Status         |-> "Available",
                      _BARCODE_CANON |-> _canon(barcode),
                      _copy_num      |-> 0,
                      _ROW_KEY       |-> NoKey]))

\* one run of main() in which "Add Book" was pressed
AddBook ==
    /\ ReachesTabs
    /\ Len(load_books(BOOKS_CSV)) < MaxBooks
    /\ \E title \in TypedTitles, barcode \in TypedBarcodes :
          IF title = ""
          THEN /\ ui' = Shown("add_book_no_title")
               /\ UNCHANGED BOOKS_CSV
          ELSE /\ BOOKS_CSV' = add_book(BOOKS_CSV, title, "", barcode)
               /\ ui' = Shown("book_added")
    /\ UNCHANGED <<session, STUDENT_CSV, LOG_CSV, logs_autosynced>>

----------------------------------------------------------------------------
(* The catalog maintained while copies are lent: Add Book, Borrow, Return, *)
(* catalog edit and Delete Book Copy                                       *)

NextCatalog ==
    \/ AutoSync
    \/ BorrowNoOverride
    \/ Return
    \/ AddBook
    \/ SaveCatalog
    \/ DeleteBookCopy

SpecCatalog == InitTwoCopies /\ [][NextCatalog]_vars

\* C15: copy identity is unique: no two rows of the loaded catalog carry the
\* same identity key (_ROW_KEY).
C15_CopyIdentityUnique ==
    LET books_df == load_books(BOOKS_CSV)
    IN  \A i, j \in 1..Len(books_df) :
           i # j => books_df[i]._ROW_KEY # books_df[j]._ROW_KEY

----------------------------------------------------------------------------
(* Loading a catalog file: any short file of the sample rows, shown in the *)
(* copy list of the Borrow tab, with books added and copies deleted        *)

\* the files the model starts from have at most this many rows
MaxRows == 4

\* a row the librarian left empty (load_books drops it)
BlankRow == [Book_ID |-> "", Book_Title |-> "", Barcode |-> <<" ">>]

ShelfRows == {Dune1, Dune2, Emma7, BlankRow}

Shelves == UNION { [1..n -> ShelfRows] : n \in 0..MaxRows }

InitShelf ==
    /\ STUDENT_CSV = Roster
    /\ \E c \in Shelves : BOOKS_CSV = CatalogFile(c, [i \in 1..Len(c) |-> "Available"])
    /\ LOG_CSV = <<>>
    /\ logs_autosynced = FALSE
    /\ ui = Shown("start")
    /\ session = [s \in Sessions |-> Idle]

\* one run of main() that gets to the Borrow tab and lists every copy with
\* its "Copy #"
ShowCopies ==
    /\ ReachesTabs
    /\ ui' = [msg |-> "copies_shown", books |-> load_books(BOOKS_CSV)]
    /\ UNCHANGED <<session, STUDENT_CSV, BOOKS_CSV, LOG_CSV, logs_autosynced>>

NextShelf ==
    \/ ShowCopies
    \/ AddBook
    \/ DeleteBookCopy

SpecShelf == InitShelf /\ [][NextShelf]_vars

\* the positions of the rows of books_df in the group of row i: same title,
\* Book ID and barcode
GroupOf(books_df, i) ==
    { j \in 1..Len(books_df) : Identity(books_df[j]) = Identity(books_df[i]) }

----------------------------------------------------------------------------
(* Scanner input: a text typed or scanned into a field and its canonical   *)
(* key                                                                     *)

\* a scanned text has at most this many characters
MaxScanLen == 3

ScanAlphabet == {"a", "A", "1", "-", " ", "U+01F0"}

ScanTexts == UNION { [1..n -> ScanAlphabet] : n \in 0..MaxScanLen }

\* what reaches _canon: a text, or None
ScanInputs == { [none |-> FALSE, text |-> t] : t \in ScanTexts }
              \cup { [none |-> TRUE, text |-> <<>>] }

\* _canon(s) with s possibly None
_canon_input(s) == IF s.none THEN <<>> ELSE _canon(s.text)

InitScan ==
    /\ Init
    /\ BOOKS_CSV = CatalogFile(<<Dune1, Dune2>>, <<"Available", "Available">>)

\* one run of main() with a text in a scanner field: the field's value and
\* the key it is looked up by
Scan ==
    /\ ReachesTabs
    /\ \E s \in ScanInputs : ui' = [msg |-> "scanned", s |-> s, canon |-> _canon_input(s)]
    /\ UNCHANGED <<session, STUDENT_CSV, BOOKS_CSV, LOG_CSV, logs_autosynced>>

NextScan == Scan

SpecScan == InitScan /\ [][NextScan]_vars

\* s and t differ only in letter case and in non-alphanumeric characters
SameLettersAndDigits(s, t) ==
    lower(SelectSeq(s, IsAlnum)) = lower(SelectSeq(t, IsAlnum))

\* C17: _canon is total and idempotent and insensitive to case and
\* formatting: the key of a key is the key itself, two texts that differ only
\* in letter case and non-alphanumeric characters have the same key, and None
\* or the empty text gives the empty key.
C17_CanonIdempotentInsensitive ==
    ui.msg = "scanned" =>
       /\ _canon(ui.canon) = ui.canon
       /\ \A t \in ScanTexts :
             (~ui.s.none /\ SameLettersAndDigits(ui.s.text, t)) => _canon(t) = ui.canon
       /\ (ui.s.none \/ ui.s.text = <<>>) => ui.canon = <<>>

----------------------------------------------------------------------------
(* Every operation that saves the catalog, with one student and a         *)
(* one-copy shelf whose Status cell holds what a librarian may have typed  *)
(* into the file                                                           *)

\* Status cells of a catalog file edited by hand
RawStatuses == {"Available", "issued", "lost", ""}

InitRawStatus ==
    /\ STUDENT_CSV = <<Roster[1]>>
    /\ \E raw \in RawStatuses : BOOKS_CSV = CatalogFile(<<Dune1>>, <<raw>>)
    /\ LOG_CSV = <<>>
    /\ logs_autosynced = FALSE
    /\ ui = Shown("start")
    /\ session = [s \in Sessions |-> Idle]

NextStatus ==
    \/ AutoSync
    \/ ShowCopies
    \/ BorrowNoOverride
    \/ Return
    \/ AddBook
    \/ SaveCatalog
    \/ SaveChanges
    \/ DeleteThisLog

SpecStatus == InitRawStatus /\ [][NextStatus]_vars

\* the two values of a copy's status
Statuses == {"Available", "Borrowed"}

\* C18: each copy's status is exactly Available or Borrowed: in the loaded
\* catalog always, and in the file once an operation has saved it; a blank
\* or unrecognized stored value is read as Available.
C18_StatusTwoValued ==
    LET books_df == load_books(BOOKS_CSV)
        kept     == SelectSeq(BOOKS_CSV.rows, LAMBDA r : ~all_blank(r))
    IN  /\ \A i \in 1..Len(books_df) : books_df[i].Status \in Statuses
        /\ BOOKS_CSV.has_ROW_KEY =>
              \A i \in 1..Len(BOOKS_CSV.rows) : BOOKS_CSV.rows[i].Status \in Statuses
        /\ \A i \in 1..Len(kept) :
              kept[i].Status \in {"", "lost"} => books_df[i].Status = "Available"

\* the copy list was shown for a file whose Status cell is blank or unknown,
\* and lists the copy as Available
C18_Witness ==
    /\ ui.msg = "copies_shown"
    /\ ui.books = load_books(BOOKS_CSV)
    /\ \E i \in 1..Len(ui.books) :
          /\ BOOKS_CSV.rows[i].Status \in {"", "lost"}
          /\ ui.books[i].Status = "Available"

----------------------------------------------------------------------------
(* Borrow tab, scanner mode: the lookup of a scanned barcode, with copies  *)
(* lent and returned in between                                            *)

\* what is scanned into "Scan/enter Book Barcode": nothing, a barcode with a
\* trailing blank, a barcode no copy has, a text without letters or digits
LookupScans == BarcodeScans \cup { <<"A", "1">>, <<"-">> }

\* one run of main() with a barcode in the scanner field of the Borrow tab:
\* the copy found, or the error
ScanBook ==
    LET books == load_books(BOOKS_CSV)
    IN  /\ ReachesTabs
        /\ \E scanned \in LookupScans :
              LET scan_book_barcode == strip(scanned)
                  rows == selected_rows(books, scan_book_barcode)
              IN  IF scan_book_barcode = NoText
                  THEN ui' = [msg |-> "no_scan", scan |-> scan_book_barcode]
                  ELSE IF rows = {}
                  THEN ui' = [msg |-> "book_not_found", scan |-> scan_book_barcode]
                  ELSE \E r \in rows :
                          ui' = [msg |-> "book_found", scan |-> scan_book_barcode, r |-> r]
        /\ UNCHANGED <<session, STUDENT_CSV, BOOKS_CSV, LOG_CSV, logs_autosynced>>

NextLookup ==
    \/ AutoSync
    \/ BorrowNoOverride
    \/ Return
    \/ ScanBook

SpecLookup == Init /\ [][NextLookup]_vars

\* the rows of the loaded catalog whose canonical barcode is that of text
CopiesWithBarcode(books_df, text) ==
    { i \in 1..Len(books_df) : _canon(books_df[i].Barcode) = _canon(text) }

\* C19: copy lookup by scanned barcode in Borrow: the resolved copy is a row
\* of the catalog whose canonical barcode equals the canonical scanned input;
\* when a copy with that barcode is Available the resolved copy is an
\* Available one; and "not found" is the answer exactly when no copy has the
\* barcode.
C19_BarcodeLookup ==
    LET books_df == load_books(BOOKS_CSV)
    IN  /\ ui.msg = "book_found" =>
              /\ \E i \in CopiesWithBarcode(books_df, ui.scan) : books_df[i] = ui.r
              /\ (\E i \in CopiesWithBarcode(books_df, ui.scan) : IsAvailable(books_df[i]))
                    => IsAvailable(ui.r)
        /\ ui.msg = "book_not_found" => CopiesWithBarcode(books_df, ui.scan) = {}
        /\ ui.msg \in {"book_found", "book_not_found"} => ui.scan # NoText

\* a barcode was scanned that two copies carry, the first of them Borrowed
\* and the second Available, and the Available one was found
C19_Witness ==
    LET books_df == load_books(BOOKS_CSV)
    IN  /\ ui.msg = "book_found"
        /\ IsAvailable(ui.r)
        /\ \E i, j \in CopiesWithBarcode(books_df, ui.scan) :
              /\ i < j
              /\ IsBorrowed(books_df[i])
              /\ books_df[j] = ui.r

----------------------------------------------------------------------------
(* Two sessions in the log editor.  A run of main() in which a button of  *)
(* the editor was pressed loads the ledger and the catalog, then writes    *)
(* the ledger, then writes the catalog; the runs of two sessions are       *)
(* threads of one server and interleave between these steps.               *)

\* the shelf after Ann Lee and Bo Kim each borrowed a copy of Dune
InitTwoLoans ==
    LET books0 == CatalogFile(<<Dune1, Dune2>>, <<"Available", "Available">>)
        books  == load_books(books0)
    IN  /\ STUDENT_CSV = Roster
        /\ BOOKS_CSV = borrow_update_catalog(
                          borrow_update_catalog(books0, books[1]._ROW_KEY),
                          books[2]._ROW_KEY)
        /\ LOG_CSV = borrow_write_log(
                        borrow_write_log(<<>>, FullName(Roster[1]), books[1],
                                         DefaultLoanDays, 0),
                        FullName(Roster[2]), books[2], DefaultLoanDays, 0)
        /\ logs_autosynced = FALSE
        /\ ui = Shown("borrowed")
        /\ session = [s \in Sessions |-> Idle]

\* session s starts the run of a button press in the log editor: the tab
\* loads the ledger and the catalog
OpenLogsTab(s) ==
    /\ session[s].pc \in {"idle", "done"}
    /\ ReachesTabs
    /\ LET logs == load_logs(LOG_CSV)
       IN  IF logs = <<>>
           THEN /\ session' = [session EXCEPT ![s] = Idle]
                /\ ui' = Shown("nothing_to_edit")
           ELSE /\ session' = [session EXCEPT ![s] =
                                 [pc |-> "loaded", logs |-> logs,
                                  books_now |-> load_books(BOOKS_CSV)]]
                /\ UNCHANGED ui
    /\ UNCHANGED <<STUDENT_CSV, BOOKS_CSV, LOG_CSV, logs_autosynced>>

\* the ledger frame and the catalog update of the button pressed on the
\* entry at place p of the loaded ledger
EditOutcomes(logs, books_now) ==
    UNION { LET idx == edit_idx(logs, edit_label(logs[p]))
                row == logs[idx]
            IN  { [msg |-> "log_updated",
                   logs |-> edit_save_changes(logs, books_now, idx, row.Student,
                                              row.Book_Title, e_returned),
                   title |-> row.Book_Title,
                   status |-> IF e_returned = "Yes" THEN "Available" ELSE "Borrowed"]
                  : e_returned \in {"No", "Yes"} }
                \cup
                { [msg |-> "log_deleted",
                   logs |-> drop_row(logs, idx),
                   title |-> row.Book_Title,
                   status |-> "Available"] }
          : p \in 1..Len(logs) }

\* a variant that refuses to write when the ledger is no longer the one the
\* run loaded
WriteLedger_unless_changed(s) ==
    /\ session[s].pc = "loaded"
    /\ \E out \in EditOutcomes(session[s].logs, session[s].books_now) :
          IF load_logs(LOG_CSV) = session[s].logs
          THEN /\ LOG_CSV' = save_logs(out.logs)
               /\ session' = [session EXCEPT ![s] =
                                [pc |-> "logs_saved",
                                 books_now |-> session[s].books_now, msg |-> out.msg,
                                 title |-> out.title, status |-> out.status]]
               /\ UNCHANGED ui
          ELSE /\ session' = [session EXCEPT ![s] = Idle]
               /\ ui' = Shown("conflict")
               /\ UNCHANGED LOG_CSV
    /\ UNCHANGED <<STUDENT_CSV, BOOKS_CSV, logs_autosynced>>

\* session s runs the handler of "Save Changes" or "Delete This Log" up to
\* save_logs: the frame it loaded, with its change, replaces the file
WriteLedger(s) ==
    /\ session[s].pc = "loaded"
    /\ \E out \in EditOutcomes(session[s].logs, session[s].books_now) :
          /\ LOG_CSV' = save_logs(out.logs)
          /\ session' = [session EXCEPT ![s] =
                           [pc |-> "logs_saved",
                            books_now |-> session[s].books_now, msg |-> out.msg,
                            title |-> out.title, status |-> out.status]]
    /\ UNCHANGED <<STUDENT_CSV, BOOKS_CSV, logs_autosynced, ui>>

\* session s runs the rest of the handler: save_books of the catalog it
\* loaded, with the status of the title set, and the message
WriteCatalog(s) ==
    /\ session[s].pc = "logs_saved"
    /\ BOOKS_CSV' = title_status_saved(session[s].books_now, session[s].title,
                                       session[s].status)
    /\ ui' = Shown(session[s].msg)
    /\ session' = [session EXCEPT ![s] =
                     [pc |-> "done", msg |-> session[s].msg]]
    /\ UNCHANGED <<STUDENT_CSV, LOG_CSV, logs_autosynced>>

NextTwoSessions ==
    \/ AutoSync
    \/ \E s \in Sessions :
          \/ OpenLogsTab(s)
          \/ WriteLedger(s)
          \/ WriteCatalog(s)

SpecTwoSessions == InitTwoLoans /\ [][NextTwoSessions]_vars

\* the file is the frame with at most one row changed or one row removed
OneChangeFrom(file, frame) ==
    \E idx \in 1..Len(frame) :
       \/ file = save_logs(drop_row(frame, idx))
       \/ /\ Len(file) = Len(frame)
          /\ \A i \in (1..Len(frame)) \ {idx} : file[i] = save_logs(frame)[i]

\* C20: last write wins between sessions: a run that has loaded the ledger
\* always writes it, whatever the file holds by then, and the table stored is
\* the frame the run loaded with the run's own change and nothing else; the
\* same holds for the catalog.
C20_LastWriteWins ==
    [][ \A s \in Sessions :
          /\ (session[s].pc = "loaded" /\ session'[s] # session[s]) =>
                /\ session'[s].pc = "logs_saved"
                /\ OneChangeFrom(LOG_CSV', session[s].logs)
          /\ (session[s].pc = "logs_saved" /\ session'[s] # session[s]) =>
                /\ session'[s].pc = "done"
                /\ Len(BOOKS_CSV'.rows) = Len(session[s].books_now)
                /\ \A i \in 1..Len(session[s].books_now) :
                      /\ BOOKS_CSV'.rows[i]._ROW_KEY = session[s].books_now[i]._ROW_KEY
                      /\ BOOKS_CSV'.rows[i].Status \in
                            {session[s].books_now[i].Status, session[s].status} ]_vars

\* both sessions loaded the ledger with the two loans, session 1 deleted one
\* of them and session 2 then saved an edit: the deleted entry is back in the
\* file (no step of this specification adds an entry that names a borrower)
C20_Witness ==
    /\ session[1] = [pc |-> "done", msg |-> "log_deleted"]
    /\ session[2] = [pc |-> "done", msg |-> "log_updated"]
    /\ ui.msg = "log_updated"
    /\ Len(LOG_CSV) = 2
    /\ LOG_CSV[1].Student = FullName(Roster[1])
    /\ LOG_CSV[2].Student = FullName(Roster[2])

----------------------------------------------------------------------------
(* A Borrow or a Return whose save_books raises after save_logs has        *)
(* written: the handler's except branch shows the error, nothing is undone *)

\* "Confirm Borrow" passing every check, with the catalog write failing
BorrowInterrupted ==
    LET students_df == load_students(STUDENT_CSV)
        books_df    == load_books(BOOKS_CSV)
    IN  /\ ReachesTabs
        /\ Len(LOG_CSV) < MaxLogs
        /\ \E final_student \in FinalStudents(students_df) \ {""},
              final_row_key \in FinalRowKeys(books_df) \ {NoKey},
              days \in LoanDayChoices, now \in Clock :
              LET row == Filter(books_df, LAMBDA r : r._ROW_KEY = final_row_key)
              IN  /\ row # <<>>
                  /\ borrow_allowed(row[1].Status, FALSE)
                  /\ LOG_CSV' = borrow_write_log(LOG_CSV, final_student, row[1], days, now)
                  /\ ui' = [msg |-> "borrow_error", title |-> row[1].Book_Title]
        /\ UNCHANGED <<session, STUDENT_CSV, BOOKS_CSV, logs_autosynced>>

\* "Mark as Returned" with a catalog row to set Available, the catalog write
\* failing
ReturnInterrupted ==
    LET books_df == load_books(BOOKS_CSV)
        logs_df  == load_logs(LOG_CSV)
    IN  /\ ReachesTabs
        /\ open_index(logs_df) # <<>>
        /\ \E place \in ReturnPlaces(logs_df) :
              LET row == logs_df[returned_row(logs_df, place)]
              IN  /\ matching_idx(logs_df, row) # {}
                  /\ return_mask(books_df, row) # {}
                  /\ LOG_CSV' = return_write_log(logs_df, row)
                  /\ ui' = [msg |-> "return_error", title |-> row.Book_Title, row |-> row]
        /\ UNCHANGED <<session, STUDENT_CSV, BOOKS_CSV, logs_autosynced>>

NextInterrupt ==
    \/ AutoSync
    \/ BorrowNoOverride
    \/ Return
    \/ BorrowInterrupted
    \/ ReturnInterrupted

SpecInterrupt == Init /\ [][NextInterrupt]_vars

\* the titles of a list of the health check
Listed(titles) == { titles[i] : i \in 1..Len(titles) }

\* the interrupted Return left a divergence: a copy of the closed entry is
\* still Borrowed and no open entry names that copy
ReturnLeftDivergence(books, logs) ==
    /\ \E i \in return_mask(books, ui.row) : IsBorrowed(books[i])
    /\ \A j \in 1..Len(logs) : IsOpen(logs[j]) => Identity(logs[j]) # Identity(ui.row)

\* C21: an interrupted transaction is detected: after a Borrow or a Return
\* that wrote the ledger and failed to write the catalog, the health check of
\* the next load lists the title: an interrupted Borrow under "open log but
\* Available", an interrupted Return that left a Borrowed copy without an
\* open entry under "Borrowed but no open log".
C21_InterruptedIsDetected ==
    LET books == load_books(BOOKS_CSV)
        logs  == load_logs(LOG_CSV)
    IN  /\ ui.msg = "borrow_error" => ui.title \in Listed(log_but_available(books, logs))
        /\ (ui.msg = "return_error" /\ ReturnLeftDivergence(books, logs))
              => ui.title \in Listed(missing_log(books, logs))

----------------------------------------------------------------------------
(* The remote mirror: every save_* writes the local file and then pushes   *)
(* it; the push can fail                                                   *)

\* a variant of the push that lets the failure out
_gh_put_csv_raising(push_ok) == IF push_ok THEN "pushed" ELSE "raised"

\* _gh_put_csv: a failing push is caught, shown in the sidebar, and the call
\* returns
_gh_put_csv(push_ok) == IF push_ok THEN "pushed" ELSE "sync_failed"

\* what the run shows: the message of the handler and whether the sidebar
\* has "GitHub sync failed"
ShownWithMirror(msg, op, pushes) ==
    [msg |-> msg, op |-> op, gh_failed |-> "sync_failed" \in pushes \/ "raised" \in pushes]

\* "Confirm Borrow" passing every check, each of its two saves pushing
BorrowMirrored ==
    LET students_df == load_students(STUDENT_CSV)
        books_df    == load_books(BOOKS_CSV)
    IN  /\ ReachesTabs
        /\ Len(LOG_CSV) < MaxLogs
        /\ \E final_student \in FinalStudents(students_df) \ {""},
              final_row_key \in FinalRowKeys(books_df) \ {NoKey},
              days \in LoanDayChoices, now \in Clock,
              push_logs \in BOOLEAN, push_books \in BOOLEAN :
              LET row == Filter(books_df, LAMBDA r : r._ROW_KEY = final_row_key)
                  p1  == _gh_put_csv(push_logs)
                  p2  == _gh_put_csv(push_books)
              IN  /\ row # <<>>
                  /\ borrow_allowed(row[1].Status, FALSE)
                  /\ LOG_CSV' = borrow_write_log(LOG_CSV, final_student, row[1], days, now)
                  /\ IF p1 = "raised"
                     THEN /\ UNCHANGED BOOKS_CSV
                          /\ ui' = ShownWithMirror("borrow_error", "borrow", {p1})
                     ELSE /\ BOOKS_CSV' = borrow_update_catalog(BOOKS_CSV, final_row_key)
                          /\ ui' = ShownWithMirror(IF p2 = "raised" THEN "borrow_error"
                                                   ELSE "borrowed", "borrow", {p1, p2})
        /\ UNCHANGED <<session, STUDENT_CSV, logs_autosynced>>

\* "Mark as Returned", each of its two saves pushing
ReturnMirrored ==
    LET logs_df == load_logs(LOG_CSV)
    IN  /\ ReachesTabs
        /\ open_index(logs_df) # <<>>
        /\ \E place \in ReturnPlaces(logs_df), push_logs \in BOOLEAN, push_books \in BOOLEAN :
              LET row == logs_df[returned_row(logs_df, place)]
                  p1  == _gh_put_csv(push_logs)
                  p2  == _gh_put_csv(push_books)
              IN  /\ matching_idx(logs_df, row) # {}
                  /\ LOG_CSV' = return_write_log(logs_df, row)
                  /\ IF p1 = "raised"
                     THEN /\ UNCHANGED BOOKS_CSV
                          /\ ui' = ShownWithMirror("return_error", "return", {p1})
                     ELSE /\ BOOKS_CSV' = return_update_catalog(BOOKS_CSV, row)
                          /\ ui' = ShownWithMirror(IF p2 = "raised" THEN "return_error"
                                                   ELSE "returned", "return", {p1, p2})
        /\ UNCHANGED <<session, STUDENT_CSV, logs_autosynced>>

\* "Delete Student", its save pushing
DeleteStudentMirrored ==
    LET students_now == load_students(STUDENT_CSV)
    IN  /\ ReachesTabs
        /\ \E k \in 1..Len(students_now), push_students \in BOOLEAN :
              LET p1 == _gh_put_csv(push_students)
              IN  /\ STUDENT_CSV' = delete_student(STUDENT_CSV, FullName(students_now[k]))
                  /\ ui' = ShownWithMirror(IF p1 = "raised" THEN "delete_error"
                                           ELSE "student_deleted", "delete_student", {p1})
        /\ UNCHANGED <<session, BOOKS_CSV, LOG_CSV, logs_autosynced>>

NextMirror ==
    \/ AutoSync
    \/ BorrowMirrored
    \/ ReturnMirrored
    \/ DeleteStudentMirrored

SpecMirror == InitTwoCopies /\ [][NextMirror]_vars

\* the run was one of the operations with a push, and a push of it failed
PushFailedIn(op) == ui'.msg # "autosync_created" /\ ui'.op = op /\ ui'.gh_failed

\* C22: a failed push to the remote mirror never fails the local save and
\* never aborts the operation: after a Borrow, a Return or a Delete Student in
\* which a push failed, the local tables hold the new content of every save
\* of the operation (the new open entry and its copy Borrowed; an entry
\* closed and its copy Available; the roster shorter) and the operation shows
\* its success message.
C22_PushFailureIsHarmless ==
    [][ /\ PushFailedIn("borrow") =>
             LET books_now == load_books(BOOKS_CSV')
                 new       == LOG_CSV'[Len(LOG_CSV')]
             IN  /\ ui'.msg = "borrowed"
                 /\ Len(LOG_CSV') = Len(LOG_CSV) + 1
                 /\ new.Returned = "No"
                 /\ \E i \in 1..Len(books_now) :
                       /\ Identity(books_now[i]) = Identity(new)
                       /\ IsBorrowed(books_now[i])
        /\ PushFailedIn("return") =>
             LET books_now == load_books(BOOKS_CSV')
             IN  /\ ui'.msg = "returned"
                 /\ \E k \in ClosedByStep : \A i \in 1..Len(books_now) :
                       Identity(books_now[i]) = Identity(load_logs(LOG_CSV)[k])
                          => IsAvailable(books_now[i])
        /\ PushFailedIn("delete_student") =>
             /\ ui'.msg = "student_deleted"
             /\ Len(STUDENT_CSV') < Len(STUDENT_CSV) ]_vars

\* a Borrow whose pushes failed has shown its success message; the new entry
\* is in the ledger and its copy is Borrowed
C22_Witness ==
    /\ ui.msg = "borrowed"
    /\ ui.gh_failed
    /\ LOG_CSV # <<>>
    /\ LOG_CSV[Len(LOG_CSV)].Returned = "No"
    /\ \E i \in 1..Len(BOOKS_CSV.rows) :
          /\ BOOKS_CSV.rows[i].Barcode = LOG_CSV[Len(LOG_CSV)].Barcode
          /\ BOOKS_CSV.rows[i].Status = "Borrowed"

----------------------------------------------------------------------------
(* Copies created with Add Book *)

\* C23: every copy of the loaded catalog, one created with Add Book included,
\* has a non-empty identity key, and while it is Available a Borrow that
\* names it passes the checks of "Confirm Borrow": the key is not empty, the
\* key finds a row, and that row is not marked Borrowed.
C23_AddedCopyCanBeBorrowed ==
    LET books_df == load_books(BOOKS_CSV)
    IN  \A i \in 1..Len(books_df) :
           LET final_row_key == books_df[i]._ROW_KEY
           IN  /\ final_row_key # NoKey
               /\ IsAvailable(books_df[i]) =>
                     borrow_allowed(RowOf(books_df, final_row_key).Status, FALSE)

----------------------------------------------------------------------------
(* The health check on a state without divergence *)

\* the open entries of the loaded ledger that name the copy r
OpenEntriesOf(logs, r) ==
    { j \in 1..Len(logs) : IsOpen(logs[j]) /\ Identity(logs[j]) = Identity(r) }

\* the Borrowed copies of the loaded catalog that the entry e names
BorrowedCopiesOf(books, e) ==
    { i \in 1..Len(books) : IsBorrowed(books[i]) /\ Identity(books[i]) = Identity(e) }

\* every open entry names exactly one Borrowed copy, and every Borrowed copy
\* has exactly one open entry
LedgerMatchesCatalog(books, logs) ==
    /\ \A j \in 1..Len(logs) :
          IsOpen(logs[j]) => Cardinality(BorrowedCopiesOf(books, logs[j])) = 1
    /\ \A i \in 1..Len(books) :
          IsBorrowed(books[i]) => Cardinality(OpenEntriesOf(logs, books[i])) = 1

\* C24: when every open ledger entry names exactly one Borrowed copy and
\* every Borrowed copy has exactly one open entry, the health check lists
\* nothing: no title "Borrowed but no open log" and no title "open log but
\* Available", also while another copy of a lent title is Available.
C24_NoFalseDivergence ==
    LET books == load_books(BOOKS_CSV)
        logs  == load_logs(LOG_CSV)
    IN  LedgerMatchesCatalog(books, logs) =>
           /\ missing_log(books, logs) = <<>>
           /\ log_but_available(books, logs) = <<>>

----------------------------------------------------------------------------
(* Logs tab: which copies an edit or a deletion touches *)

\* the positions of the loaded ledger that the step may have edited or
\* deleted: removing the entry, or saving it with some Returned value, gives
\* the ledger after the step
EditedByStep ==
    LET logs      == load_logs(LOG_CSV)
        books_now == load_books(BOOKS_CSV)
    IN  { i \in 1..Len(logs) :
            \/ LOG_CSV' = save_logs(drop_row(logs, i))
            \/ \E e_returned \in {"No", "Yes"} :
                  LOG_CSV' = save_logs(edit_save_changes(logs, books_now, i,
                                 logs[i].Student, logs[i].Book_Title, e_returned)) }

\* C25: "Save Changes" and "Delete This Log" change the status only of the
\* copy the edited entry references: every catalog row whose Status differs
\* after the step has the title, Book ID and barcode of the entry that was
\* edited or deleted, so a copy lent under another open entry stays Borrowed
\* and an Available copy the entry does not reference stays Available.
C25_LogEditTouchesOnlyItsCopy ==
    [][ (ui'.msg \in {"log_updated", "log_deleted"} /\ (SaveChanges \/ DeleteThisLog)) =>
        LET logs  == load_logs(LOG_CSV)
            books == load_books(BOOKS_CSV)
        IN  \A j \in 1..Len(books) :
               StatusAfter(j) # StatusBefore(j) =>
                  \E i \in EditedByStep : Identity(logs[i]) = Identity(books[j]) ]_vars

----------------------------------------------------------------------------
(* The copy a synthesized entry names *)

\* C26: every entry the reconciler adds to the ledger (automatic sync or
\* quick sync) carries the title, Book ID and barcode of a catalog row whose
\* Status is Borrowed, not those of an Available copy of the same title.
C26_SynthesizedEntryNamesBorrowedCopy ==
    [][ (ui'.msg \in {"autosync_created", "quicksync_created"} /\ (AutoSync \/ QuickSync)) =>
        LET books == load_books(BOOKS_CSV)
            after == load_logs(LOG_CSV')
        IN  \A k \in (Len(LOG_CSV) + 1)..Len(after) :
               \E i \in 1..Len(books) :
                  IsBorrowed(books[i]) /\ Identity(books[i]) = Identity(after[k]) ]_vars

----------------------------------------------------------------------------
(* Two sessions in the Borrow tab.  A run of main() in which "Confirm       *)
(* Borrow" was pressed loads the tables, checks the status of the copy in   *)
(* the catalog it loaded, then reloads and writes the ledger, then reloads  *)
(* and writes the catalog; the runs of two sessions interleave between      *)
(* these steps.  The override checkbox is left off.                         *)

\* two copies of Dune, both Available, nothing lent
InitTwoAvailable ==
    /\ InitTwoCopies
    /\ \A i \in 1..Len(BOOKS_CSV.rows) : BOOKS_CSV.rows[i].Status = "Available"

\* session s starts the run of "Confirm Borrow": main() loads the tables,
\* the tab settles the final selections and checks the Status of the copy in
\* the catalog just loaded
BorrowCheck(s) ==
    /\ session[s].pc \in {"idle", "done"}
    /\ ReachesTabs
    /\ LET students_df == load_students(STUDENT_CSV)
           books       == load_books(BOOKS_CSV)
       IN  \E final_student \in FinalStudents(students_df),
              final_row_key \in FinalRowKeys(books), days \in LoanDayChoices :
              LET row == Filter(books, LAMBDA r : r._ROW_KEY = final_row_key)
              IN  IF final_student = "" \/ final_row_key = NoKey
                  THEN /\ ui' = Shown("borrow_required")
                       /\ session' = [session EXCEPT ![s] = Idle]
                  ELSE IF row = <<>>
                  THEN /\ ui' = Shown("borrow_copy_not_found")
                       /\ session' = [session EXCEPT ![s] = Idle]
                  ELSE IF ~borrow_allowed(row[1].Status, FALSE)
                  THEN /\ ui' = Shown("borrow_already_borrowed")
                       /\ session' = [session EXCEPT ![s] = Idle]
                  ELSE /\ session' = [session EXCEPT ![s] =
                                        [pc |-> "checked", final_student |-> final_student,
                                         final_row_key |-> final_row_key,
                                         r |-> row[1], days |-> days]]
                       /\ UNCHANGED ui
    /\ UNCHANGED <<STUDENT_CSV, BOOKS_CSV, LOG_CSV, logs_autosynced>>

\* session s goes on to "Write log": the ledger is loaded again and saved
\* with the new open entry
BorrowWriteLedger(s) ==
    /\ session[s].pc = "checked"
    /\ Len(LOG_CSV) < MaxLogs
    /\ \E now \in Clock :
          LOG_CSV' = borrow_write_log(LOG_CSV, session[s].final_student,
                                      session[s].r, session[s].days, now)
    /\ session' = [session EXCEPT ![s] =
                     [pc |-> "log_written",
                      final_row_key |-> session[s].final_row_key]]
    /\ UNCHANGED <<STUDENT_CSV, BOOKS_CSV, logs_autosynced, ui>>

\* session s ends the run with "Update catalog": the catalog is loaded
\* again, the row with the key is set Borrowed, the catalog is saved
BorrowWriteCatalog(s) ==
    /\ session[s].pc = "log_written"
    /\ BOOKS_CSV' = borrow_update_catalog(BOOKS_CSV, session[s].final_row_key)
    /\ ui' = Shown("borrowed")
    /\ session' = [session EXCEPT ![s] = [pc |-> "done"]]
    /\ UNCHANGED <<STUDENT_CSV, LOG_CSV, logs_autosynced>>

NextTwoBorrowers ==
    \E s \in Sessions :
       \/ BorrowCheck(s)
       \/ BorrowWriteLedger(s)
       \/ BorrowWriteCatalog(s)

SpecTwoBorrowers == InitTwoAvailable /\ [][NextTwoBorrowers]_vars

\* C27: with two sessions on the same files and the override off, the
\* ledger never holds two open entries in a borrower's name for one copy:
\* two Borrow confirmations for the same Available copy do not both succeed.
C27_OneOpenLoanPerCopy ==
    \A i, j \in 1..Len(LOG_CSV) :
       ( /\ i < j
         /\ IsOpen(load_logs(LOG_CSV)[i]) /\ IsOpen(load_logs(LOG_CSV)[j])
         /\ LOG_CSV[i].Student # "" /\ LOG_CSV[j].Student # "" )
       => Identity(load_logs(LOG_CSV)[i]) # Identity(load_logs(LOG_CSV)[j])

----------------------------------------------------------------------------
(* Scanned text without letters or digits *)

\* C28: a scanned or typed text whose canonical key is empty (punctuation
\* only) is never resolved to a copy: whenever the barcode lookup of the
\* Borrow tab reports a copy found, the canonical key of the text scanned is
\* not empty, so a copy with a blank barcode is not selected by it.
C28_EmptyKeyFindsNothing ==
    ui.msg = "book_found" => _canon(ui.scan) # NoText

----------------------------------------------------------------------------
(* "Borrowed now" tab: the quick action "Mark selected as returned" *)

\* filt["_label"]: student, title and borrow time, joined by " | "
_label(r) == <<r.Student, r.Book_Title, r.Date_Borrowed>>

\* isinstance(r["Date Borrowed"], pd.Timestamp): load_logs reads every column
\* as text and the tab converts only "Due Date", so the cell is a str
is_Timestamp(cell) == FALSE

\* the mask of one selected entry.  The conditional expression binds looser
\* than ==, so the third operand of & is the comparison only when the cell
\* is a Timestamp and the text str(r["Date Borrowed"]) otherwise; a boolean
\* series & a str raises TypeError.  Otherwise: the rows with the student,
\* the title and the borrow time of r.
mark_mask(logs_edit, r) ==
    IF is_Timestamp(r.Date_Borrowed)
    THEN [raised |-> FALSE,
          rows   |-> { i \in 1..Len(logs_edit) :
                         /\ logs_edit[i].Student = r.Student
                         /\ logs_edit[i].Book_Title = r.Book_Title
                         /\ logs_edit[i].Date_Borrowed = r.Date_Borrowed }]
    ELSE [raised |-> TRUE, rows |-> {}]

\* the open rows the multiselect offers (both filters on "(All)")
filt(logs_live) == Filter(logs_live, IsOpen)

\* what can be ticked in "Select entries to mark as returned"
MarkSelections(logs_live) ==
    SUBSET { _label(filt(logs_live)[k]) : k \in 1..Len(filt(logs_live)) }

\* filt[filt["_label"] == lab].iloc[0]
first_with_label(logs_live, lab) ==
    Filter(filt(logs_live), LAMBDA r : _label(r) = lab)[1]

\* one run of main() in which "Mark selected as returned" was pressed while
\* entries are out.  An exception in the handler is caught by the tab's
\* try/except and shown in an error box; the files are saved only after
\* the loop over the selection.
MarkSelectedAsReturned ==
    LET logs_live  == load_logs(LOG_CSV)
        books_live == load_books(BOOKS_CSV)
    IN  /\ ReachesTabs
        /\ filt(logs_live) # <<>>
        /\ \E to_mark \in MarkSelections(logs_live) :
              LET masks  == { mark_mask(logs_live, first_with_label(logs_live, lab)) :
                              lab \in to_mark }
                  titles == { first_with_label(logs_live, lab).Book_Title : lab \in to_mark }
              IN  IF to_mark = {}
                  THEN /\ ui' = [msg |-> "nothing_selected", to_mark |-> to_mark]
                       /\ UNCHANGED <<LOG_CSV, BOOKS_CSV>>
                  ELSE IF \E m \in masks : m.raised
                  THEN /\ ui' = [msg |-> "borrowed_now_error", to_mark |-> to_mark]
                       /\ UNCHANGED <<LOG_CSV, BOOKS_CSV>>
                  ELSE /\ LOG_CSV' = save_logs(
                              [i \in 1..Len(logs_live) |->
                                  IF \E m \in masks : i \in m.rows
                                  THEN [logs_live[i] EXCEPT !.Returned = "Yes"]
                                  ELSE logs_live[i]])
                       /\ BOOKS_CSV' = save_books(
                              [i \in 1..Len(books_live) |->
                                  IF books_live[i].Book_Title \in titles
                                  THEN [books_live[i] EXCEPT !.Status = "Available"]
                                  ELSE books_live[i]])
                       /\ ui' = [msg |-> "marked_returned", to_mark |-> to_mark]
        /\ UNCHANGED <<session, STUDENT_CSV, logs_autosynced>>

NextBorrowedNow ==
    \/ BorrowNoOverride
    \/ Return
    \/ MarkSelectedAsReturned

SpecBorrowedNow == InitConsistent /\ [][NextBorrowedNow]_vars

\* C29: "Mark selected as returned", confirmed with a non-empty selection,
\* completes without error and closes exactly the selected open entries:
\* the success message is shown and the entries the step set to Returned =
\* Yes are the open entries whose borrower, title and borrow time were
\* selected.
C29_MarkSelectedClosesSelection ==
    [][ (ui'.msg \in {"marked_returned", "borrowed_now_error"} /\ MarkSelectedAsReturned) =>
        /\ ui'.msg = "marked_returned"
        /\ ClosedByStep = { i \in 1..Len(LOG_CSV) :
                              LOG_CSV[i].Returned = "No" /\ _label(LOG_CSV[i]) \in ui'.to_mark }
      ]_vars

----------------------------------------------------------------------------
(* Delete Student on a roster with names of more than one word *)

\* roster entries: a one-word name and surname, a surname of two words, a
\* given name of two words
SampleStudents ==
    { [Code |-> <<"A", "-", "1">>, Name |-> "Ann",    Surname |-> "Lee"],
      [Code |-> <<"b", "2">>,      Name |-> "Bo",     Surname |-> "Lee Kim"],
      [Code |-> NoText,            Name |-> "Bo Lee", Surname |-> "Ann"] }

\* the rosters of two or three of these entries, in any order
SampleRosters ==
    { r \in UNION { [1..n -> SampleStudents] : n \in 2..3 } :
        \A i, j \in 1..Len(r) : i # j => r[i] # r[j] }

InitRosters ==
    /\ STUDENT_CSV \in SampleRosters
    /\ BOOKS_CSV \in { CatalogFile(<<Dune1, Dune2>>, st) :
                       st \in [1..2 -> {"Available", "Borrowed"}] }
    /\ LOG_CSV = <<>>
    /\ logs_autosynced = FALSE
    /\ ui = Shown("start")
    /\ session = [s \in Sessions |-> Idle]

NextRoster ==
    \/ AutoSync
    \/ BorrowNoOverride
    \/ Return
    \/ DeleteStudent

SpecRoster == InitRosters /\ [][NextRoster]_vars

\* the roster file without the entries that have the given name and the
\* surname of the entry at place k
RosterWithout(students_file, k) ==
    LET students_now == load_students(students_file)
    IN  save_students(SelectSeq(students_now,
            LAMBDA st : ~(st.Name = students_now[k].Name
                          /\ st.Surname = students_now[k].Surname)))

\* C30: after "Delete Student" is confirmed for a roster entry, the roster
\* is the one before without that entry: the entry is gone and every entry
\* with a different given name or surname is still there, also when the
\* given name or the surname is made of several words.
C30_DeleteStudentRemovesSelected ==
    [][ (ui'.msg = "student_deleted" /\ DeleteStudent) =>
        \E k \in 1..Len(STUDENT_CSV) : STUDENT_CSV' = RosterWithout(STUDENT_CSV, k) ]_vars

====
